---- MODULE Spec2Model ----
(***************************************************************************)
(* Render orchestration core of quarto-cli: src/command/render/render.ts.  *)
(*                                                                         *)
(* Spec models a sequence of renderExecute calls against the files of one  *)
(* project: the working files directory of every input, the hidden freezer *)
(* (.quarto/_freeze) and the user-visible freezer (_freeze).               *)
(***************************************************************************)
EXTENDS Integers, Sequences, FiniteSets, TLC

(***************************************************************************)
(* Bounds of the model.                                                    *)
(***************************************************************************)
\* distinct markdown texts an engine execution can produce
MaxMarkdown == 2
\* distinct include sets an engine execution can produce
MaxIncludes == 1

(***************************************************************************)
(* The inputs, the outputs and the values of the format's directives.      *)
(***************************************************************************)
\* inputs of the project; "posts/a.qmd" lies in a sub-directory of it and
\* "about.md" is run by the markdown engine
ProjectInputs == {"posts/a.qmd", "about.md"}
\* an input that is rendered without a project context
LooseInputs == {"scratch.qmd"}
Inputs == ProjectInputs \cup LooseInputs
\* output names (one per format)
Outputs == {"html", "pdf"}
\* the formats each input declares
OutputsOf(input) == IF input = "posts/a.qmd" THEN {"html", "pdf"} ELSE {"html"}
\* engine.canFreeze of the engine that runs the input (false: markdown engine)
engineCanFreeze(input) == input # "about.md"
\* variant: no engine defines executeTargetSkipped
noExecuteTargetSkipped(input) == FALSE

\* the engine of the input defines executeTargetSkipped
hasExecuteTargetSkipped(input) == input \in {"posts/a.qmd", "about.md"}
\* format.execute[kFreeze]: true | "auto" | false | undefined
FreezeValues == {"true", "auto", "false", "undefined"}
\* format.execute[kExecuteEnabled]: only `!== false` is tested
EnabledValues == {"true", "false"}

\* ExecuteResult: markdown and includes (the fields a freeze entry keeps)
Results == [markdown : 1..MaxMarkdown, includes : 1..MaxIncludes]
\* `undefined` where an ExecuteResult is expected
NoResult == [markdown |-> 0, includes |-> 0]

\* relative(project.dir, dirname(source)): "" for an input at the project root
inputDir(input) == IF input = "posts/a.qmd" THEN "posts" ELSE ""

(***************************************************************************)
(* A files directory of one input, in the working tree or in a freezer:    *)
(*   dir     the directory exists                                          *)
(*   resDir  its execute-results sub-directory exists                      *)
(*   res     the snapshot per output name (NoResult: no file)              *)
(*   figs    the figures directory per output format (0: absent, else the  *)
(*           markdown id of the execution that produced the figures)       *)
(***************************************************************************)
NoDir ==
  [dir |-> FALSE, resDir |-> FALSE,
   res |-> [o \in Outputs |-> NoResult], figs |-> [o \in Outputs |-> 0]]

\* a freezer: root directory, intermediate directories, files dir per input
NoFreezer ==
  [root |-> FALSE, sub |-> {}, files |-> [i \in ProjectInputs |-> NoDir]]

\* the freezer holds the entry (snapshot file) of (input, output)
HasEntry(fz, input, output) == fz.files[input].res[output] # NoResult

\* the entry of (input, output): snapshot and adjacent figures directory
Entry(fz, input, output) ==
  <<fz.files[input].res[output], fz.files[input].figs[output]>>

VARIABLES
  work,     \* working files directory of every input of the project
  hidden,   \* hidden freezer of the project
  visible,  \* user-visible freezer of the project
  last      \* what the last renderExecute call was given and did

\* one renderFiles call (SpecFiles)
VARIABLES
  renderer,       \* the pandocRenderer of the call: "default" or "custom"
  fpc,            \* the step renderFiles is at
  fi,             \* index i of the file loop
  contexts,       \* format names of the contexts of files[i], in key order
  ci,             \* index of the current context in contexts
  renderedFiles,  \* the RenderedFile records the renderer has collected
  thrown,         \* the failure on its way to the catch block
  thrownAt,       \* the step that failed first
  outcome,        \* what renderFiles returned, or the failure it threw
  trace,          \* the steps performed so far, in order
  cleanups,       \* number of tempContext.cleanup() calls
  validateYaml,   \* format.metadata["validate-yaml"] of the current context
  domInits,       \* number of initializations initDenoDom performed
  resolutions     \* what renderContexts resolved, for every file so far

\* one renderPandoc call (SpecPandoc)
VARIABLES
  pin,         \* what the call is given: execute result, format, converter
  ppc,         \* the stage renderPandoc is at
  pidx,        \* index i of the loop the call is in
  disk,        \* the output file on disk
  doc,         \* the document tree of runHtmlPostprocessors
  htmlResult,  \* postProcessResult of runHtmlPostprocessors
  plog,        \* the stages performed so far, in order
  presult,     \* what renderPandoc returned, or how it failed
  \* one call of resolveFormats
  fin,         \* its arguments: the metadata layers, the flags, the file
  fout,        \* the mapping it returned, as the list of its entries
  \* one call of isSelfContainedOutput
  scin,        \* its arguments: flags, format and final output
  scout,       \* the boolean it returned
  \* one call of the reveal.js HTML postprocessor
  rin,         \* the child nodes of the document body, and pluginInit.scripts
  rout,        \* the child nodes afterwards, and the result or the failure
  \* one run of configure
  cin,         \* the operating system and the candidate paths
  cst          \* the position in the loop, the symlinks and the messages

execVars == <<work, hidden, visible, last>>
filesVars == <<renderer, fpc, fi, contexts, ci, renderedFiles, thrown, thrownAt,
               outcome, trace, cleanups, validateYaml, domInits, resolutions>>
pandocVars == <<pin, ppc, pidx, disk, doc, htmlResult, plog, presult>>
pureVars == <<fin, fout, scin, scout, rin, rout, cin, cst>>
vars == <<work, hidden, visible, last, renderer, fpc, fi, contexts, ci,
          renderedFiles, thrown, thrownAt, outcome, trace, cleanups, validateYaml,
          domInits, pin, ppc, pidx, disk, doc, htmlResult, plog, presult,
          fin, fout, scin, scout, resolutions, rin, rout, cin, cst>>
\* what a renderExecute call, and a step of renderFiles, leaves alone
outsideExec == <<filesVars, pandocVars, pureVars>>
outsideFiles == <<execVars, pandocVars, pureVars>>
outsidePandoc == <<execVars, filesVars, pureVars>>

(***************************************************************************)
(* freeze.ts (not part of the sources at hand): modelled from the          *)
(* specification of the Freeze Cache and from the call sites in render.ts. *)
(***************************************************************************)
\* copy every file of src (a working files dir) over dst, keeping the rest
MergeDir(dst, src) ==
  [dir |-> TRUE,
   resDir |-> dst.resDir \/ src.resDir,
   res |-> [o \in Outputs |->
              IF src.res[o] # NoResult THEN src.res[o] ELSE dst.res[o]],
   figs |-> [o \in Outputs |->
              IF src.figs[o] # 0 THEN src.figs[o] ELSE dst.figs[o]]]

\* copyToProjectFreezer(project, file, hidden, incremental = true)
copyToProjectFreezer(fz, w, input) ==
  IF ~w[input].dir THEN fz
  ELSE [root |-> TRUE,
        sub |-> fz.sub \cup (IF inputDir(input) = "" THEN {} ELSE {inputDir(input)}),
        files |-> [fz.files EXCEPT ![input] = MergeDir(@, w[input])]]

\* copyFromProjectFreezer(project, file, hidden)
copyFromProjectFreezer(fz, w, input) ==
  IF fz.files[input].dir THEN [w EXCEPT ![input] = fz.files[input]] ELSE w

\* defrostExecuteResult(source, output, temp, force)
defrostExecuteResult(w, input, output, force) == w[input].res[output]

\* freezeExecuteResult(source, output, result)
freezeExecuteResult(w, input, output, result) ==
  [w EXCEPT ![input] =
     [@ EXCEPT !.dir = TRUE, !.resDir = TRUE, !.res[output] = result]]

\* removeFreezeResults(filesDir)
removeFreezeResults(w, input) ==
  [w EXCEPT ![input] =
     [@ EXCEPT !.resDir = FALSE, !.res = [o \in Outputs |-> NoResult]]]

(***************************************************************************)
(* The execution engine (external): engine.execute returns a result and    *)
(* leaves the figures of its computations in the working files directory.  *)
(***************************************************************************)
engineExecute(w, input, output, enabled, result) ==
  IF enabled = "false" \/ ~engineCanFreeze(input) \/ input \notin ProjectInputs
  THEN w
  ELSE [w EXCEPT ![input] =
          [@ EXCEPT !.dir = TRUE, !.figs[output] = result.markdown]]

(***************************************************************************)
(* renderExecute (render.ts 390-530), decision by decision.                *)
(***************************************************************************)
\* project.config.project[kProjectLibDir] of the project ("": not set)
kProjectLibDir == "site_libs"

\* context.project: the input is rendered with a project context
inProject(input) == input \in ProjectInputs

\* variant: the execute.enabled directive is not consulted
canFreezeIgnoringEnabled(input, enabled) == engineCanFreeze(input)

\* const canFreeze = engine.canFreeze && execute[kExecuteEnabled] !== false
canFreeze(input, enabled) == engineCanFreeze(input) /\ enabled # "false"

\* variant: the alwaysExecute option is not consulted
usePreviousIgnoringAlways(input, alwaysExecute) == inProject(input)

\* if (context.project && !alwaysExecute)
usePrevious(input, alwaysExecute) == inProject(input) /\ ~alwaysExecute

\* variant: only an explicit `freeze: true` thaws
thawOnlyWhenTrue(input, enabled, freeze, useFreezer) ==
  IF canFreeze(input, enabled) /\ freeze = "true" THEN "true" ELSE "false"

\* const thaw = canFreeze && (execute[kFreeze] || (useFreezer ? "auto" : false))
thaw(input, enabled, freeze, useFreezer) ==
  IF ~canFreeze(input, enabled) THEN "false"
  ELSE IF freeze \in {"true", "auto"} THEN freeze
  ELSE IF useFreezer THEN "auto" ELSE "false"

\* variant: the reuse attempt always reads the hidden freezer
thawAlwaysFromHidden(freeze) == TRUE

\* const hidden = context.format.execute[kFreeze] === false
thawFromHidden(freeze) == freeze = "false"

\* variant: the result of an execution is never stored
neverStores(input, enabled) == FALSE

\* if (context.project && canFreeze): the execution is stored in the freezer
storeResult(input, enabled) ==
  inProject(input) /\ canFreeze(input, enabled)

\* variant: every stored execution is mirrored to _freeze
mirrorAlways(freeze) == TRUE

\* if (context.format.execute[kFreeze] !== false): mirror to _freeze
mirrorToVisible(freeze) == freeze # "false"

\* removeIfEmptyDir(dirname(freezerFile)): the execute-results directory
removeResDirIfEmpty(d) ==
  IF d.resDir /\ (\A o \in Outputs : d.res[o] = NoResult)
  THEN [d EXCEPT !.resDir = FALSE] ELSE d

\* removeIfEmptyDir(dirname(freezeFigsDir)): the files directory of the input
removeFilesDirIfEmpty(d) ==
  IF d.dir /\ ~d.resDir /\ (\A o \in Outputs : d.figs[o] = 0)
  THEN [d EXCEPT !.dir = FALSE] ELSE d

\* removeIfEmptyDir(join(project.dir, kProjectFreezeDir)): the freezer root
removeRootIfEmpty(fz) ==
  IF fz.root /\ fz.sub = {}
     /\ (\A i \in ProjectInputs : inputDir(i) = "" => ~fz.files[i].dir)
  THEN [fz EXCEPT !.root = FALSE] ELSE fz

\* variant: the _freeze entry is left in place
pruneNothing(fz, input, output) == fz

\* the else branch of the mirror: cleanup of the _freeze entry of this target
pruneVisible(fz, input, output) ==
  LET d0 == fz.files[input]
      \* removeIfExists(freezeFigsDir)
      d1 == [d0 EXCEPT !.figs[output] = 0]
      \* removeIfExists(freezerFile)
      d2 == [d1 EXCEPT !.res[output] = NoResult]
      d3 == removeResDirIfEmpty(d2)
      d4 == removeFilesDirIfEmpty(d3)
  IN removeRootIfEmpty([fz EXCEPT !.files[input] = d4])

\* variant: the hidden freezer is written only when the visible one is
storeHiddenOnlyWhenMirrored(fz, w, input, freeze) ==
  IF freeze = "false" THEN fz ELSE copyToProjectFreezer(fz, w, input)

\* always copy to the hidden freezer
storeHidden(fz, w, input, freeze) == copyToProjectFreezer(fz, w, input)

\* the freezer the reuse attempt copies from
thawSource(freeze) == IF thawFromHidden(freeze) THEN "hidden" ELSE "visible"

\* the record of one renderExecute call
CallRecord(input, output, freeze, enabled, useFreezer, alwaysExecute, thawed, executed, skipped, engineResult, returned, ops) ==
  [input |-> input, output |-> output, freeze |-> freeze, enabled |-> enabled,
   useFreezer |-> useFreezer,
   alwaysExecute |-> alwaysExecute, thawed |-> thawed, executed |-> executed,
   skipped |-> skipped, engineResult |-> engineResult, returned |-> returned,
   ops |-> ops,
   hadSnapshot |-> inProject(input)
                   /\ HasEntry(IF thawSource(freeze) = "hidden" THEN hidden
                               ELSE visible, input, output)]

\* renderExecute(context, output, options)
renderExecute(input, output, freeze, enabled, useFreezer, alwaysExecute, result) ==
  LET th == thaw(input, enabled, freeze, useFreezer)
      hasSkipped == hasExecuteTargetSkipped(input)
      attempt == usePrevious(input, alwaysExecute) /\ th # "false"
      src == thawSource(freeze)
      \* copyFromProjectFreezer(project, projRelativeFilesDir, hidden)
      w1 == IF attempt
            THEN copyFromProjectFreezer(
                   IF src = "hidden" THEN hidden ELSE visible, work, input)
            ELSE work
      thawedResult ==
        IF attempt THEN defrostExecuteResult(w1, input, output, th = "true")
        ELSE NoResult
      attemptOps ==
        IF attempt THEN <<"copyFrom:" \o src, "defrost">> ELSE <<>>
  IN IF thawedResult # NoResult
     THEN \* reuse: the engine is not executed
          /\ work' = removeFreezeResults(w1, input)
          /\ UNCHANGED <<hidden, visible>>
          /\ last' = CallRecord(input, output, freeze, enabled,
                       useFreezer, alwaysExecute, TRUE, FALSE, hasSkipped,
                       NoResult, thawedResult,
                       attemptOps
                         \o (IF kProjectLibDir # "" THEN <<"copyLibFrom:" \o src>>
                             ELSE <<>>)
                         \o <<"removeFreezeResults">>
                         \o (IF hasSkipped THEN <<"executeTargetSkipped">> ELSE <<>>))
     ELSE LET w2 == engineExecute(w1, input, output, enabled, result)
              store == storeResult(input, enabled)
              w3 == IF store THEN freezeExecuteResult(w2, input, output, result)
                    ELSE w2
              mirror == mirrorToVisible(freeze)
          IN /\ work' = IF store THEN removeFreezeResults(w3, input) ELSE w3
             /\ hidden' = IF store THEN storeHidden(hidden, w3, input, freeze)
                          ELSE hidden
             /\ visible' = IF ~store THEN visible
                           ELSE IF mirror
                                THEN copyToProjectFreezer(visible, w3, input)
                                ELSE pruneVisible(visible, input, output)
             /\ last' = CallRecord(input, output, freeze, enabled,
                          useFreezer, alwaysExecute, FALSE,
                          TRUE, FALSE, result, result,
                          attemptOps \o <<"execute">>
                            \o (IF store
                                THEN <<"freeze", "copyTo:hidden">>
                                       \o (IF mirror THEN <<"copyTo:visible">>
                                           ELSE IF HasEntry(visible, input, output)
                                                THEN <<"prune:removed">>
                                                ELSE <<"prune:absent">>)
                                       \o <<"removeFreezeResults">>
                                ELSE <<>>))

(***************************************************************************)
(* The specification: any sequence of renderExecute calls.                 *)
(***************************************************************************)
NoCall ==
  [input |-> "", output |-> "", freeze |-> "undefined", enabled |-> "true",
   useFreezer |-> FALSE, alwaysExecute |-> FALSE,
   thawed |-> FALSE, executed |-> FALSE, skipped |-> FALSE,
   engineResult |-> NoResult, returned |-> NoResult, ops |-> <<>>,
   hadSnapshot |-> FALSE]

InitExec ==
  /\ work = [i \in ProjectInputs |-> NoDir]
  /\ hidden = NoFreezer
  /\ visible = NoFreezer
  /\ last = NoCall

\* no renderFiles call is under way
NoOutcome == [returned |-> FALSE, files |-> <<>>, error |-> "none", threw |-> "none"]

InitFilesIdle ==
  /\ renderer = "default"
  /\ fpc = "idle"
  /\ fi = 0
  /\ contexts = <<>>
  /\ ci = 0
  /\ renderedFiles = <<>>
  /\ thrown = "none"
  /\ thrownAt = "none"
  /\ outcome = NoOutcome
  /\ trace = <<>>
  /\ cleanups = 0
  /\ validateYaml = "undefined"
  /\ domInits = 0
  /\ resolutions = <<>>

\* no renderPandoc call is under way
NoFile == [exists |-> FALSE, doctype |-> "", body |-> <<>>]
NoDocument == [doctypeMatch |-> "", tree |-> <<>>]
NoHtmlResult == [resources |-> <<>>, supporting |-> <<>>]
NoRendered == [kind |-> "none", error |-> "none", resources |-> <<>>,
               supporting |-> <<>>]

InitPandocIdle ==
  /\ pin = [idle |-> TRUE]
  /\ ppc = "idle"
  /\ pidx = 0
  /\ disk = NoFile
  /\ doc = NoDocument
  /\ htmlResult = NoHtmlResult
  /\ plog = <<>>
  /\ presult = NoRendered

NotCalled == [idle |-> TRUE]
NotReturned == [returned |-> FALSE]

InitPureIdle ==
  /\ fin = NotCalled
  /\ fout = NotReturned
  /\ scin = NotCalled
  /\ scout = NotReturned
  /\ rin = NotCalled
  /\ rout = NotReturned
  /\ cin = NotCalled
  /\ cst = NotReturned

Init == InitExec /\ InitFilesIdle /\ InitPandocIdle /\ InitPureIdle

RenderExecute ==
  \E input \in Inputs, freeze \in FreezeValues, enabled \in EnabledValues,
     useFreezer \in BOOLEAN, alwaysExecute \in BOOLEAN, result \in Results :
    \E output \in OutputsOf(input) :
      /\ renderExecute(input, output, freeze, enabled, useFreezer,
                       alwaysExecute, result)
      /\ UNCHANGED outsideExec

Next == RenderExecute

Spec == Init /\ [][Next]_vars

(***************************************************************************)
(* Vocabulary of the properties of renderExecute.                          *)
(***************************************************************************)
\* a renderExecute call has been made
Called == last.input # ""

\* the call was eligible for reuse of a frozen result
Eligible(c) ==
  /\ inProject(c.input)
  /\ engineCanFreeze(c.input)
  /\ c.enabled # "false"
  /\ ~c.alwaysExecute
  /\ (c.freeze \in {"true", "auto"} \/ c.useFreezer)

\* the call ran the engine and stored its result in the freezer
Stored(c) ==
  /\ c.executed
  /\ inProject(c.input)
  /\ engineCanFreeze(c.input)
  /\ c.enabled # "false"

\* position of an operation in the log of the call (0: not performed)
OpIndex(c, op) ==
  IF \E k \in 1..Len(c.ops) : c.ops[k] = op
  THEN CHOOSE k \in 1..Len(c.ops) : c.ops[k] = op
  ELSE 0

(***************************************************************************)
(* C1. With alwaysExecute set renderExecute runs the engine and returns    *)
(* the engine's result, never a frozen snapshot, also when a snapshot of   *)
(* the same (source, output) exists and the freeze directive is enabled;   *)
(* the freezer then holds the new result.                                  *)
(***************************************************************************)
C1_AlwaysExecuteRunsEngine ==
  (Called /\ last.alwaysExecute) =>
    /\ last.executed
    /\ ~last.thawed
    /\ last.engineResult \in Results
    /\ last.returned = last.engineResult
    /\ Stored(last) => hidden.files[last.input].res[last.output] = last.returned

C1_Witness ==
  /\ Called
  /\ last.alwaysExecute
  /\ last.freeze = "true"
  /\ canFreeze(last.input, last.enabled)
  /\ last.hadSnapshot
  /\ last.executed

(***************************************************************************)
(* C2. renderExecute returns a frozen result, without running the engine,  *)
(* exactly when the call is eligible (project, freeze-capable engine,      *)
(* execute not disabled, alwaysExecute unset, freeze true/"auto" or        *)
(* useFreezer) and the snapshot of (source, output) is found; in every     *)
(* other case the engine runs and its result is returned.                  *)
(***************************************************************************)
C2_ReuseOnlyWhenEligible ==
  Called =>
    /\ last.thawed <=> (Eligible(last) /\ last.hadSnapshot)
    /\ last.thawed =>
         /\ ~last.executed
         /\ last.engineResult = NoResult
         /\ last.returned \in Results
    /\ ~last.thawed =>
         /\ last.executed
         /\ last.engineResult \in Results
         /\ last.returned = last.engineResult

C2_Witness ==
  /\ Called
  /\ Eligible(last)
  /\ last.freeze = "undefined"
  /\ ~last.hadSnapshot
  /\ last.executed
  /\ "defrost" = last.ops[2]

(***************************************************************************)
(* C3. After every engine execution in a project with a freeze-capable     *)
(* engine and execution not disabled, the hidden freezer holds the         *)
(* snapshot and the figures of that execution, whatever the freeze         *)
(* directive is.                                                           *)
(***************************************************************************)
C3_HiddenAlwaysWritten ==
  (Called /\ Stored(last)) =>
    /\ hidden.files[last.input].res[last.output] = last.engineResult
    /\ hidden.files[last.input].figs[last.output] = last.engineResult.markdown
    /\ hidden.root

C3_Witness ==
  /\ Called
  /\ Stored(last)
  /\ last.freeze = "false"
  /\ hidden.files[last.input].res[last.output] = last.engineResult

\* C3 as stated: for every configuration of the format, execute.enabled too
C3_Original ==
  (Called /\ last.executed /\ inProject(last.input)
     /\ engineCanFreeze(last.input)) =>
    hidden.files[last.input].res[last.output] = last.engineResult

(***************************************************************************)
(* C4. After an execution the visible freezer is written only when the     *)
(* freeze directive is true or "auto"; without a freeze directive the      *)
(* visible freezer is left unchanged.                                      *)
(***************************************************************************)
C4_Original ==
  [][(inProject(last'.input) /\ last'.executed
        /\ last'.freeze \notin {"true", "auto"}
        /\ HasEntry(visible', last'.input, last'.output))
      => Entry(visible', last'.input, last'.output)
           = Entry(visible, last'.input, last'.output)]_vars

(***************************************************************************)
(* C5. Two consecutive renders of one (input, output) in a project, the    *)
(* entry being frozen after the first (freeze enabled) and the second with *)
(* freeze false, execute not disabled and the engine executed              *)
(* (alwaysExecute set or useFreezer unset): afterwards the visible freezer *)
(* no longer holds the entry and the hidden freezer holds it.              *)
(***************************************************************************)
C5_Toggle(first, second) ==
  /\ first.input # ""
  /\ inProject(first.input)
  /\ first.freeze \in {"true", "auto"}
  /\ second.input = first.input
  /\ second.output = first.output
  /\ second.freeze = "false"
  /\ second.enabled # "false"

C5_ToggleOffPrunesVisible ==
  [][(/\ C5_Toggle(last, last')
      /\ HasEntry(visible, last.input, last.output)
      /\ HasEntry(hidden, last.input, last.output)
      /\ (last'.alwaysExecute \/ ~last'.useFreezer))
      => /\ ~HasEntry(visible', last.input, last.output)
         /\ visible'.files[last.input].figs[last.output] = 0
         /\ HasEntry(hidden', last.input, last.output)
         /\ hidden'.files[last.input].res[last.output] = last'.returned]_vars

C5_Witness ==
  /\ Called
  /\ Stored(last)
  /\ last.freeze = "false"
  /\ OpIndex(last, "prune:removed") > 0
  /\ ~HasEntry(visible, last.input, last.output)
  /\ HasEntry(hidden, last.input, last.output)

\* C5 as stated: whatever useFreezer and alwaysExecute are
C5_Original ==
  [][(/\ C5_Toggle(last, last')
      /\ HasEntry(visible, last.input, last.output)
      /\ HasEntry(hidden, last.input, last.output))
      => /\ ~HasEntry(visible', last.input, last.output)
         /\ HasEntry(hidden', last.input, last.output)]_vars

(***************************************************************************)
(* C6. After any sequence of renders in the project, whenever the visible  *)
(* freezer holds an entry of an (input, output), that entry (snapshot and  *)
(* figures) equals the entry of the hidden freezer: the visible freezer is *)
(* never stale with respect to the hidden one.                             *)
(***************************************************************************)
C6_VisibleNeverStale ==
  \A i \in ProjectInputs : \A o \in OutputsOf(i) :
    HasEntry(visible, i, o) => Entry(visible, i, o) = Entry(hidden, i, o)

C6_Witness ==
  /\ Called
  /\ Stored(last)
  /\ last.freeze = "false"
  /\ \E o \in OutputsOf(last.input) :
       /\ o # last.output
       /\ HasEntry(visible, last.input, o)
       /\ Entry(visible, last.input, o) = Entry(hidden, last.input, o)
       /\ hidden.files[last.input].res[o] # last.returned

(***************************************************************************)
(* C7. After an execution in a project with a freeze-capable engine and    *)
(* freeze explicitly false, the visible freezer holds neither the snapshot *)
(* nor the figures of this (input, output), no directory that the removal  *)
(* emptied is left behind (the freezer root included), and the entries of  *)
(* every other input or output are unchanged.                              *)
(***************************************************************************)
\* the directories of a freezer that exist and are empty
EmptyDirs(fz) ==
  {<<"results", i>> : i \in {j \in ProjectInputs :
      fz.files[j].resDir /\ \A o \in Outputs : fz.files[j].res[o] = NoResult}}
  \cup {<<"files", i>> : i \in {j \in ProjectInputs :
      /\ fz.files[j].dir /\ ~fz.files[j].resDir
      /\ \A o \in Outputs : fz.files[j].figs[o] = 0}}
  \cup {<<"sub", d>> : d \in {e \in fz.sub :
      \A j \in ProjectInputs : inputDir(j) = e => ~fz.files[j].dir}}
  \cup (IF fz.root /\ fz.sub = {}
           /\ \A j \in ProjectInputs : inputDir(j) = "" => ~fz.files[j].dir
        THEN {<<"root", "">>} ELSE {})

C7_Original ==
  [][(Stored(last') /\ last'.freeze = "false") =>
       /\ ~HasEntry(visible', last'.input, last'.output)
       /\ visible'.files[last'.input].figs[last'.output] = 0
       /\ EmptyDirs(visible') \subseteq EmptyDirs(visible)
       /\ \A i \in ProjectInputs : \A o \in Outputs :
            <<i, o>> # <<last'.input, last'.output>> =>
              Entry(visible', i, o) = Entry(visible, i, o)]_vars

(***************************************************************************)
(* C8. On every eligible reuse attempt renderExecute first copies the      *)
(* cached files of the input into the working files directory and then     *)
(* reads the snapshot; the files come from the hidden freezer when the     *)
(* freeze directive is explicitly false and from the visible freezer for   *)
(* every other value of the directive.                                     *)
(***************************************************************************)
\* the freezer a call with this freeze directive is served from
SourceFreezer(c) == IF c.freeze = "false" THEN hidden ELSE visible

C8_CopyBeforeDefrost ==
  (Called /\ Eligible(last)) =>
    /\ Len(last.ops) >= 2
    /\ last.ops[1] =
         (IF last.freeze = "false" THEN "copyFrom:hidden" ELSE "copyFrom:visible")
    /\ last.ops[2] = "defrost"
    /\ last.thawed =>
         /\ work[last.input].figs = SourceFreezer(last).files[last.input].figs
         /\ last.returned = SourceFreezer(last).files[last.input].res[last.output]

C8_Witness ==
  /\ Called
  /\ Eligible(last)
  /\ last.freeze = "auto"
  /\ last.thawed
  /\ last.ops[1] = "copyFrom:visible"
  /\ work[last.input].figs[last.output] # 0

\* C8 as stated: from the hidden cache, whatever the freeze directive is
C8_Original ==
  (Called /\ Eligible(last)) =>
    /\ Len(last.ops) >= 2
    /\ last.ops[1] = "copyFrom:hidden"
    /\ last.ops[2] = "defrost"

(***************************************************************************)
(* C9. Freeze round trip: an execution in the project whose result was     *)
(* stored by freezeExecuteResult under a freeze directive that is not      *)
(* false, followed by a renderExecute call of the same (source, output)    *)
(* with freeze true or "auto", execute not disabled and alwaysExecute      *)
(* unset, returns a result whose markdown and includes equal those of the  *)
(* execution.                                                              *)
(***************************************************************************)
C9_Again(first, second) ==
  /\ first.input # ""
  /\ Stored(first)
  /\ second.input = first.input
  /\ second.output = first.output
  /\ second.freeze \in {"true", "auto"}
  /\ second.enabled # "false"
  /\ ~second.alwaysExecute

C9_FreezeRoundTrip ==
  [][(C9_Again(last, last') /\ last.freeze # "false") =>
       /\ last'.thawed
       /\ last'.returned.markdown = last.engineResult.markdown
       /\ last'.returned.includes = last.engineResult.includes]_vars

C9_Witness ==
  /\ Called
  /\ last.thawed
  /\ last.freeze = "true"
  /\ ~last.useFreezer
  /\ last.returned = visible.files[last.input].res[last.output]
  /\ last.returned = hidden.files[last.input].res[last.output]

\* C9 as stated: whatever the freeze directive of the first execution was
C9_Original ==
  [][C9_Again(last, last') =>
       /\ last'.returned.markdown = last.engineResult.markdown
       /\ last'.returned.includes = last.engineResult.includes]_vars

(***************************************************************************)
(* resolveFormats (render.ts 1052-1208) and resolveFormatsFromMetadata     *)
(* (887-1005).  A metadata layer (project, directory, input) carries the   *)
(* names under its `format` key, in order, the base converter target       *)
(* (`to`, `writer`), and a few options: `toc` stands for an ordinary       *)
(* option, `theme` for the one with a special rule, `echo` and `server`    *)
(* for the implicit default, `cache` for an option a command line flag     *)
(* overrides.  An option that is not set has the value Unset.              *)
(***************************************************************************)
Unset == "undefined"

Metadata(keys, to, writer, toc, theme, echo, server, cache) == [keys |-> keys, to |-> to, writer |-> writer, toc |-> toc, theme |-> theme, echo |-> echo, server |-> server, cache |-> cache]

EmptyMetadata == Metadata(<<>>, Unset, Unset, Unset, Unset, Unset, Unset, Unset)

\* the project types: the default type; a website, which renders no pdf;
\* a book, whose project declares the formats of every input
ProjectTypes ==
  { [name |-> "default", website |-> FALSE, projectFormatsOnly |-> FALSE,
     unsupported |-> {}],
    [name |-> "website", website |-> TRUE, projectFormatsOnly |-> FALSE,
     unsupported |-> {"pdf"}],
    [name |-> "book", website |-> FALSE, projectFormatsOnly |-> TRUE,
     unsupported |-> {}] }

projectType(name) == CHOOSE type \in ProjectTypes : type.name = name

\* file.formats: absent, or the formats the file may be rendered to
NoFileFormats == [defined |-> FALSE, names |-> {}]
FileFormats(names) == [defined |-> TRUE, names |-> names]

RECURSIVE uniq(_)
uniq(xs) ==
  IF xs = <<>> THEN <<>>
  ELSE LET front == uniq(SubSeq(xs, 1, Len(xs) - 1))
           x == xs[Len(xs)]
       IN IF \E k \in 1..Len(front) : front[k] = x THEN front
          ELSE Append(front, x)

Names(xs) == {xs[k] : k \in 1..Len(xs)}

formatKeys(metadata) == metadata.keys

\* a variant that adds the project's keys to those of the input
candidatesOfAllLayers(in) == uniq(formatKeys(in.input) \o formatKeys(in.dir) \o formatKeys(in.proj))

\* render.ts 1077-1096
candidateFormats(in) ==
  LET projFormatKeys == formatKeys(in.proj)
      dirFormatKeys == formatKeys(in.dir)
      inputFormatKeys == uniq(formatKeys(in.input) \o dirFormatKeys)
  IN IF projectType(in.projType).projectFormatsOnly THEN projFormatKeys
     ELSE IF Len(inputFormatKeys) > 0 THEN inputFormatKeys
     ELSE projFormatKeys

\* render.ts 1101-1104: formats.filter((f) => file.formats?.includes(f))
permissibleFormats(formats, file) ==
  IF file.defined THEN SelectSeq(formats, LAMBDA f : f \in file.names)
  ELSE formats

\* render.ts 1106-1109: the flags of a file with file.formats have no `to`
flagsTo(in) == IF in.file.defined THEN Unset ELSE in.flags.to

\* a variant that ignores the base converter target
alwaysHtml(metadata) == "html"

\* render.ts 935: baseFormat.pandoc.to || baseFormat.pandoc.writer || "html"
defaultFormat(metadata) ==
  IF metadata.to # Unset THEN metadata.to
  ELSE IF metadata.writer # Unset THEN metadata.writer
  ELSE "html"

\* render.ts 934-936: the array `formats` after the default was pushed
providedFormats(formats, metadata) ==
  IF Len(formats) = 0 THEN <<defaultFormat(metadata)>> ELSE formats

\* flags.to.split(","), for the lists the flag takes here
split(to) ==
  CASE to = "pdf" -> <<"pdf">>
    [] to = "docx" -> <<"docx">>
    [] to = "html,pdf" -> <<"html", "pdf">>
    [] to = "pdf,pdf" -> <<"pdf", "pdf">>
    [] OTHER -> <<to>>

\* a variant that ignores flags.to
renderAllFormats(formats, to) == formats

\* render.ts 938-946
renderFormats(formats, to) ==
  IF to = Unset \/ to = "all" THEN formats
  ELSE IF to = "default" THEN <<formats[1]>>
  ELSE split(to)

\* render.ts 950-999: the Format of one layer; the options of the layer,
\* then the command line flags over them
formatFromMetadata(metadata, flags) ==
  [ext |-> Unset, toc |-> metadata.toc, theme |-> metadata.theme,
   echo |-> metadata.echo, server |-> metadata.server,
   cache |-> IF flags.executeCache # Unset THEN flags.executeCache
             ELSE metadata.cache]

\* render.ts 887-1005.  `formats` is the array the caller passed, as the
\* call leaves it; `names` are the keys of `resolved`, in insertion order;
\* `format` is the value under each of these keys.
resolveFormatsFromMetadata(metadata, formats, in) ==
  LET provided == providedFormats(formats, metadata)
  IN [formats |-> provided,
      names |-> uniq(renderFormats(provided, flagsTo(in))),
      format |-> formatFromMetadata(metadata, in.flags)]

\* a variant in which every call gets an array of its own
layersWithOwnArray(in) ==
  LET formats == permissibleFormats(candidateFormats(in), in.file)
  IN [proj |-> resolveFormatsFromMetadata(in.proj, formats, in),
      dir |-> resolveFormatsFromMetadata(in.dir, formats, in),
      input |-> resolveFormatsFromMetadata(in.input, formats, in)]

\* render.ts 1098-1132: the three calls share one array, so a default that
\* the first call pushes is what the second and the third call find in it
layers(in) ==
  LET formats == permissibleFormats(candidateFormats(in), in.file)
      proj == resolveFormatsFromMetadata(in.proj, formats, in)
      dir == resolveFormatsFromMetadata(in.dir, proj.formats, in)
      input == resolveFormatsFromMetadata(in.input, dir.formats, in)
  IN [proj |-> proj, dir |-> dir, input |-> input]

\* render.ts 1135-1139
targetFormats(in) == uniq(layers(in).proj.names \o layers(in).dir.names \o layers(in).input.names)

isHtmlOutput(format) == format = "html"

\* the themes that bring no Bootstrap; a format without a theme option
\* gets the default theme, which is a Bootstrap theme
NonBootstrapThemes == {"none", "pandoc"}

formatHasBootstrap(name, format) == isHtmlOutput(name) /\ format.theme \notin NonBootstrapThemes

projectTypeIsWebsite(type) == type.website

\* the options of b over those of a
mergeFormatMetadata(a, b) == [k \in DOMAIN a |-> IF b[k] # Unset THEN b[k] ELSE a[k]]

\* the built-in format of a writer
defaultWriterFormat(format) == [ext |-> format, toc |-> "false", theme |-> Unset, echo |-> "true", server |-> Unset, cache |-> "null"]

\* delete format.metadata[kTheme]
deleteTheme(format) == [format EXCEPT !.theme = Unset]

\* render.ts 1154-1159
dropTheme(name, format, wins) ==
  IF wins /\ formatHasBootstrap(name, format) THEN deleteTheme(format)
  ELSE format

\* render.ts 1148-1153: the condition of the theme rule
projectThemeWins(in, format, projFormat) ==
  /\ in.project
  /\ isHtmlOutput(format)
  /\ formatHasBootstrap(format, projFormat)
  /\ projectTypeIsWebsite(projectType(in.projType))

\* a variant that merges the layers in the opposite order
userFormatProjectLast(in, format) == mergeFormatMetadata(mergeFormatMetadata(layers(in).input.format, layers(in).dir.format), layers(in).proj.format)

\* render.ts 1161-1166
userFormat(in, format) ==
  LET projFormat == layers(in).proj.format
      wins == projectThemeWins(in, format, projFormat)
      directoryFormat == dropTheme(format, layers(in).dir.format, wins)
      inputFormat == dropTheme(format, layers(in).input.format, wins)
  IN mergeFormatMetadata(mergeFormatMetadata(projFormat, directoryFormat), inputFormat)

\* a variant without the implicit default
echoAsSet(format) == format

\* render.ts 1168-1174
defaultEcho(format) ==
  IF format.echo = Unset /\ format.server # Unset
  THEN [format EXCEPT !.echo = "false"]
  ELSE format

\* render.ts 1176-1180
mergedFormat(in, format) == [name |-> format, format |-> mergeFormatMetadata(defaultWriterFormat(format), defaultEcho(userFormat(in, format)))]

isSupportedFormat(type, format) == format \notin type.unsupported

\* a variant that keeps every format
keepAllFormats(type, formats) == formats

\* render.ts 1183-1194
supportedFormats(type, formats) == SelectSeq(formats, LAMBDA f : isSupportedFormat(type, f.name))

\* render.ts 1052-1208: the entries of the mapping that is returned, in the
\* order of its keys.  The execution engine's filterFormat (1196-1205) is
\* taken to return the format it is given.
resolveFormats(in) ==
  LET names == targetFormats(in)
      mergedFormats == [k \in 1..Len(names) |-> mergedFormat(in, names[k])]
  IN supportedFormats(projectType(in.projType), mergedFormats)

\* render.ts 1196-1205: the formats engine.filterFormat is called for
filterFormatCalls(in) == [k \in 1..Len(resolveFormats(in)) |-> resolveFormats(in)[k].name]

\* the arguments of a resolveFormats call
Call(project, type, proj, dir, input, file, to, executeCache) == [idle |-> FALSE, project |-> project, projType |-> type, proj |-> proj, dir |-> dir, input |-> input, file |-> file, flags |-> [to |-> to, executeCache |-> executeCache]]

\* renderContexts (render.ts 305-349): one context per format that
\* resolveFormats returned, in the order of its keys.  The record keeps, with
\* the contexts, the project type and the formats that were resolved.
renderContexts(in) ==
  [type |-> in.projType,
   candidates |-> targetFormats(in),
   filterFormat |-> filterFormatCalls(in),
   contexts |-> [k \in 1..Len(resolveFormats(in)) |-> resolveFormats(in)[k].name]]

\* the files of a renderFiles call: inputs of a project of the default type
\* or of a website, declaring html, pdf or both
ContextCalls ==
  {Call(TRUE, type, EmptyMetadata, EmptyMetadata,
        Metadata(keys, Unset, Unset, Unset, Unset, Unset, Unset, Unset),
        NoFileFormats, Unset, Unset) :
     type \in {"default", "website"},
     keys \in {<<"html">>, <<"pdf">>, <<"html", "pdf">>}}

(***************************************************************************)
(* renderFiles (render.ts 160-303): one call, step by step.  Every await   *)
(* of the function is a step; the steps of its collaborators (context      *)
(* construction, validation, renderExecute, ojsExecuteResult, the          *)
(* renderer's callbacks) either return or fail.  The effects of            *)
(* renderExecute on the freezer are the subject of Spec.                   *)
(***************************************************************************)
\* files.length of the call
NumFiles == 2

\* variant: no format is taken to be HTML compatible
neverHtmlCompatible(format) == FALSE

\* isHtmlCompatible(context.format)
isHtmlCompatible(format) == format = "html"

\* initDenoDom(): idempotent, initializes on the first call only
initDenoDom(inits) == IF inits = 0 THEN 1 ELSE inits

\* the steps the body of the try block is made of
BodySteps == {"contexts", "validate", "execute", "ojs", "onRender"}

\* variant: the error is reported as it was thrown
errorAsThrown(error) == error

\* error || new Error()
reportedError(error) == IF error = "undefined" THEN "new Error" ELSE error

\* return await pandocRenderer.onComplete(false, quiet)
completeResult(files) ==
  [returned |-> TRUE, files |-> files, error |-> "none", threw |-> "none"]

\* variant: the files rendered before the failure are not reported
catchResultWithoutFiles(files, error) ==
  [returned |-> TRUE, files |-> <<>>, error |-> reportedError(error),
   threw |-> "none"]

\* return { files: (await onComplete(true)).files, error: error || new Error() }
catchResult(files, error) ==
  [returned |-> TRUE, files |-> files, error |-> reportedError(error),
   threw |-> "none"]

\* a failure that leaves renderFiles
thrownResult(error) ==
  [returned |-> FALSE, files |-> <<>>, error |-> "none", threw |-> error]

Event(step, format, ok) ==
  [step |-> step, file |-> fi, format |-> format, ok |-> ok]

\* variant: the failed step is tried again
FailAndRetry(step, format, error) ==
  /\ thrown' = error
  /\ thrownAt' = step
  /\ trace' = Append(trace, Event(step, format, FALSE))
  /\ fpc' = step

\* variant: the failed context is abandoned and the loop goes on
FailAndGoOn(step, format, error) ==
  /\ thrown' = error
  /\ thrownAt' = step
  /\ trace' = Append(trace, Event(step, format, FALSE))
  /\ fpc' = "setup"

\* a step of the try block fails: control passes to the catch block
Fail(step, format, error) ==
  /\ thrown' = error
  /\ thrownAt' = step
  /\ trace' = Append(trace, Event(step, format, FALSE))
  /\ fpc' = "catch"

\* for (let i = 0; i < files.length; i++): the loop head
loopHead(i) == IF i <= NumFiles THEN "contexts" ELSE "complete"

\* states in which a renderFiles call begins
InitFiles ==
  /\ renderer \in {"default", "custom"}
  /\ fpc = loopHead(1)
  /\ fi = 1
  /\ contexts = <<>>
  /\ ci = 0
  /\ renderedFiles = <<>>
  /\ thrown = "none"
  /\ thrownAt = "none"
  /\ outcome = NoOutcome
  /\ trace = <<>>
  /\ cleanups = 0
  /\ validateYaml = "undefined"
  /\ domInits = 0
  /\ resolutions = <<>>

\* contexts = await renderContexts(file, options, true, project)
RenderContexts ==
  /\ fpc = "contexts"
  /\ \/ \E call \in ContextCalls :
        LET formats == renderContexts(call).contexts
        IN
          /\ contexts' = formats
          /\ resolutions' = Append(resolutions, renderContexts(call))
          /\ trace' = Append(trace, Event("contexts", "", TRUE))
          /\ IF formats = <<>>
             THEN /\ ci' = 0
                  /\ fi' = fi + 1
                  /\ fpc' = loopHead(fi + 1)
             ELSE /\ ci' = 1
                  /\ fi' = fi
                  /\ fpc' = "setup"
          /\ UNCHANGED <<thrown, thrownAt>>
     \/ \* renderContexts throws: reconstruct and validate (catch (e))
        /\ thrown' = "ContextError"
        /\ thrownAt' = "contexts"
        /\ trace' = Append(trace, Event("contexts", "", FALSE))
        /\ fpc' = "rediagnose"
        /\ UNCHANGED <<contexts, ci, fi, resolutions>>
  /\ UNCHANGED <<renderer, renderedFiles, outcome, cleanups, domInits>>
  /\ UNCHANGED validateYaml
  /\ UNCHANGED outsideFiles

\* variant: every failure of renderContexts is reported as invalid YAML
alwaysInvalidYAML(e, validationErrors) == "RenderInvalidYAMLError"

\* if (validationResult.length) throw new RenderInvalidYAMLError() else throw e
rediagnosed(e, validationErrors) ==
  IF validationErrors THEN "RenderInvalidYAMLError" ELSE e

\* fileExecutionEngineAndTarget, validateDocumentFromSource, then throw; the
\* event keeps what the validation found
Rediagnose ==
  /\ fpc = "rediagnose"
  /\ \E validationErrors \in BOOLEAN, derived \in BOOLEAN :
       /\ thrown' = IF ~derived THEN "DeriveError"
                    ELSE rediagnosed(thrown, validationErrors)
       /\ trace' = Append(trace,
                     Event("rediagnose",
                           IF ~derived THEN ""
                           ELSE IF validationErrors THEN "errors" ELSE "valid",
                           derived))
  /\ fpc' = "catch"
  /\ UNCHANGED <<renderer, fi, contexts, ci, renderedFiles, thrownAt, outcome,
                 cleanups, domInits>>
  /\ UNCHANGED validateYaml
  /\ UNCHANGED <<outsideFiles, resolutions>>

\* context.format.metadata?.["validate-yaml"]
ValidateYamlValues == {"undefined", "true", "false"}

\* setDateLocale, initDenoDom for html compatible formats, outputRecipe,
\* onBeforeExecute
Setup ==
  /\ fpc = "setup"
  /\ domInits' = IF isHtmlCompatible(contexts[ci])
                 THEN initDenoDom(domInits) ELSE domInits
  /\ validateYaml' \in ValidateYamlValues
  /\ trace' = Append(trace, Event("setup", contexts[ci], TRUE))
  /\ fpc' = "validate"
  /\ UNCHANGED <<renderer, fi, contexts, ci, renderedFiles, thrown, thrownAt,
                 outcome, cleanups>>
  /\ UNCHANGED <<outsideFiles, resolutions>>

\* variant: only an explicit `validate-yaml: true` validates
validateOnlyWhenTrue(validate) == validate = "true"

\* if (validate !== false)
mustValidate(validate) == validate # "false"

\* if (validate !== false) { validateDocument; throw RenderInvalidYAMLError }
Validate ==
  /\ fpc = "validate"
  /\ \E validationErrors \in BOOLEAN :
       IF ~mustValidate(validateYaml)
       THEN /\ trace' = Append(trace, Event("skipValidate", contexts[ci], TRUE))
            /\ fpc' = "execute"
            /\ UNCHANGED <<thrown, thrownAt>>
       ELSE IF validationErrors
       THEN Fail("validate", contexts[ci], "RenderInvalidYAMLError")
       ELSE /\ trace' = Append(trace, Event("validate", contexts[ci], TRUE))
            /\ fpc' = "execute"
            /\ UNCHANGED <<thrown, thrownAt>>
  /\ UNCHANGED <<renderer, fi, contexts, ci, renderedFiles, outcome, cleanups,
                 domInits>>
  /\ UNCHANGED validateYaml
  /\ UNCHANGED <<outsideFiles, resolutions>>

\* const baseExecuteResult = await renderExecute(context, recipe.output, ...)
Execute ==
  /\ fpc = "execute"
  /\ \/ /\ trace' = Append(trace, Event("execute", contexts[ci], TRUE))
        /\ fpc' = "ojs"
        /\ UNCHANGED <<thrown, thrownAt>>
     \/ Fail("execute", contexts[ci], "ExecuteError")
  /\ UNCHANGED <<renderer, fi, contexts, ci, renderedFiles, outcome, cleanups,
                 domInits>>
  /\ UNCHANGED validateYaml
  /\ UNCHANGED <<outsideFiles, resolutions>>

\* const { executeResult, resourceFiles } = await ojsExecuteResult(...)
Ojs ==
  /\ fpc = "ojs"
  /\ \/ /\ trace' = Append(trace, Event("ojs", contexts[ci], TRUE))
        /\ fpc' = "onRender"
        /\ UNCHANGED <<thrown, thrownAt>>
     \/ Fail("ojs", contexts[ci], "OjsError")
  /\ UNCHANGED <<renderer, fi, contexts, ci, renderedFiles, outcome, cleanups,
                 domInits>>
  /\ UNCHANGED validateYaml
  /\ UNCHANGED <<outsideFiles, resolutions>>

\* variant: the onRender callback is started and not awaited
OnRenderNotAwaited ==
  /\ fpc = "onRender"
  /\ renderedFiles' =
       Append(renderedFiles, [file |-> fi, format |-> contexts[ci]])
  /\ IF ci < Len(contexts)
     THEN /\ ci' = ci + 1
          /\ fi' = fi
          /\ fpc' = "setup"
     ELSE /\ ci' = 0
          /\ fi' = fi + 1
          /\ fpc' = loopHead(fi + 1)
  /\ UNCHANGED <<renderer, contexts, outcome, cleanups, domInits, thrown,
                 thrownAt, trace>>
  /\ UNCHANGED validateYaml
  /\ UNCHANGED <<outsideFiles, resolutions>>

\* await pandocRenderer.onRender(format, executedFile, pandocQuiet); the
\* default renderer pushes the RenderedFile of renderPandoc, which rejects
\* without a value when the converter fails
OnRender ==
  /\ fpc = "onRender"
  /\ \/ /\ renderedFiles' =
             Append(renderedFiles, [file |-> fi, format |-> contexts[ci]])
        /\ trace' = Append(trace, Event("onRender", contexts[ci], TRUE))
        /\ IF ci < Len(contexts)
           THEN /\ ci' = ci + 1
                /\ fi' = fi
                /\ fpc' = "setup"
           ELSE /\ ci' = 0
                /\ fi' = fi + 1
                /\ fpc' = loopHead(fi + 1)
        /\ UNCHANGED <<thrown, thrownAt>>
     \/ \E error \in {"undefined", "RenderError"} :
          /\ Fail("onRender", contexts[ci], error)
          /\ UNCHANGED <<renderedFiles, ci, fi>>
  /\ UNCHANGED <<renderer, contexts, outcome, cleanups, domInits>>
  /\ UNCHANGED validateYaml
  /\ UNCHANGED <<outsideFiles, resolutions>>

\* return await pandocRenderer.onComplete(false, options.flags?.quiet)
Complete ==
  /\ fpc = "complete"
  /\ \/ /\ outcome' = completeResult(renderedFiles)
        /\ trace' = Append(trace, Event("onComplete", "false", TRUE))
        /\ fpc' = "finally"
        /\ UNCHANGED <<thrown, thrownAt>>
     \/ \* the onComplete of a caller's renderer fails
        /\ renderer = "custom"
        /\ thrown' = "CompleteError"
        /\ thrownAt' = "complete"
        /\ trace' = Append(trace, Event("onComplete", "false", FALSE))
        /\ fpc' = "catch"
        /\ UNCHANGED outcome
  /\ UNCHANGED <<renderer, fi, contexts, ci, renderedFiles, cleanups, domInits>>
  /\ UNCHANGED validateYaml
  /\ UNCHANGED <<outsideFiles, resolutions>>

\* catch (error) { return { files: (await onComplete(true)).files, error } }
Catch ==
  /\ fpc = "catch"
  /\ \/ /\ outcome' = catchResult(renderedFiles, thrown)
        /\ trace' = Append(trace, Event("onComplete", "true", TRUE))
     \/ \* the onComplete of a caller's renderer fails
        /\ renderer = "custom"
        /\ outcome' = thrownResult("CompleteError")
        /\ trace' = Append(trace, Event("onComplete", "true", FALSE))
  /\ fpc' = "finally"
  /\ UNCHANGED <<renderer, fi, contexts, ci, renderedFiles, thrown, thrownAt,
                 cleanups, domInits>>
  /\ UNCHANGED validateYaml
  /\ UNCHANGED <<outsideFiles, resolutions>>

\* variant: the cleanup is the last statement of the try block
CleanupAtEndOfTry ==
  /\ fpc = "finally"
  /\ cleanups' = IF outcome.returned /\ outcome.error = "none"
                 THEN cleanups + 1 ELSE cleanups
  /\ trace' = Append(trace, Event("cleanup", "", TRUE))
  /\ fpc' = "done"
  /\ UNCHANGED <<renderer, fi, contexts, ci, renderedFiles, thrown, thrownAt,
                 outcome, domInits>>
  /\ UNCHANGED validateYaml
  /\ UNCHANGED <<outsideFiles, resolutions>>

\* finally { tempContext.cleanup() }
Finally ==
  /\ fpc = "finally"
  /\ cleanups' = cleanups + 1
  /\ trace' = Append(trace, Event("cleanup", "", TRUE))
  /\ fpc' = "done"
  /\ UNCHANGED <<renderer, fi, contexts, ci, renderedFiles, thrown, thrownAt,
                 outcome, domInits>>
  /\ UNCHANGED validateYaml
  /\ UNCHANGED <<outsideFiles, resolutions>>

NextFiles ==
  \/ RenderContexts
  \/ Rediagnose
  \/ Setup
  \/ Validate
  \/ Execute
  \/ Ojs
  \/ OnRender
  \/ Complete
  \/ Catch
  \/ Finally

\* a renderFiles call begins in a project without freezer
InitRenderFiles == InitExec /\ InitFiles /\ InitPandocIdle /\ InitPureIdle

SpecFiles == InitRenderFiles /\ [][NextFiles]_vars

(***************************************************************************)
(* Vocabulary of the properties of renderFiles.                            *)
(***************************************************************************)
\* renderFiles has returned or thrown
FilesDone == fpc = "done"

\* the records of the contexts whose onRender returned, in order
RECURSIVE RenderedOf(_)
RenderedOf(t) ==
  IF t = <<>> THEN <<>>
  ELSE LET e == Head(t)
       IN (IF e.step = "onRender" /\ e.ok
           THEN <<[file |-> e.file, format |-> e.format]>> ELSE <<>>)
          \o RenderedOf(Tail(t))

\* the partial flags of the onComplete calls, in order
RECURSIVE CompleteCalls(_)
CompleteCalls(t) ==
  IF t = <<>> THEN <<>>
  ELSE (IF Head(t).step = "onComplete" THEN <<Head(t).format>> ELSE <<>>)
       \o CompleteCalls(Tail(t))

\* the partial-mode onComplete call returned
PartialCompleteReturned ==
  \E k \in 1..Len(trace) :
    trace[k].step = "onComplete" /\ trace[k].format = "true" /\ trace[k].ok

HtmlPostprocessorLists == {<<>>, <<"a">>, <<"a", "b">>, <<"b", "a">>}
\* pandocResult.htmlFinalizers || []
HtmlFinalizerLists == {<<>>, <<"f">>, <<"f", "g">>}
\* pandocResult.postprocessors (an absent list runs nothing, like an empty one)
PostprocessorLists == {<<>>, <<"u">>, <<"u", "v">>}
\* first line of the file the converter writes
Doctypes == {"", "<!DOCTYPE html>", "<!doctype html>"}

\* what a postprocessor returns: HtmlPostProcessResult
postprocessorResult(name) ==
  IF name = "a"
  THEN [resources |-> <<"x.css", "y.js">>, supporting |-> <<"libs">>]
  ELSE [resources |-> <<"y.js">>, supporting |-> <<>>]

\* the arguments of a renderPandoc call
PandocInputs ==
  [idle : {FALSE},
   engineDependencies : BOOLEAN,   \* executeResult.engineDependencies
   converterOk : BOOLEAN,          \* runPandoc returns a result
   postProcess : BOOLEAN,          \* executeResult.postProcess
   htmlOutput : BOOLEAN,           \* isHtmlFileOutput(format.pandoc)
   htmlPostprocessors : HtmlPostprocessorLists,
   htmlFinalizers : HtmlFinalizerLists,
   postprocessors : PostprocessorLists,
   doctype : Doctypes]

\* const canHtmlPostProcess = isHtmlFileOutput(format.pandoc)
canHtmlPostProcess(p) == p.htmlOutput

\* variant: the registered postprocessors are dropped like the finalizers
neverMustFail(p) == FALSE

\* if (!canHtmlPostProcess && pandocResult.htmlPostprocessors.length > 0) throw
mustFailHtmlPostProcess(p) ==
  ~canHtmlPostProcess(p) /\ Len(p.htmlPostprocessors) > 0

\* const htmlPostProcessors = canHtmlPostProcess ? ... : []
htmlPostProcessors(p) ==
  IF canHtmlPostProcess(p) THEN p.htmlPostprocessors ELSE <<>>

\* variant: the finalizers are kept whatever the output is
finalizersOfAnyOutput(p) == p.htmlFinalizers

\* const htmlFinalizers = canHtmlPostProcess ? ... || [] : []
htmlFinalizers(p) ==
  IF canHtmlPostProcess(p) THEN p.htmlFinalizers ELSE <<>>

\* variant: the file is always parsed and written back
pipelineAlwaysRuns(posts, finals) == TRUE

\* if (htmlPostprocessors.length > 0 || htmlFinalizers.length > 0)
pipelineRuns(posts, finals) == Len(posts) > 0 \/ Len(finals) > 0

\* htmlInput.match(/^<!DOCTYPE.*?>/): the match is case-sensitive
doctypeMatch(file) ==
  IF file.doctype = "<!DOCTYPE html>" THEN file.doctype ELSE ""

\* new DOMParser().parseFromString(htmlInput, "text/html")
parseFromString(file) ==
  [doctypeMatch |-> doctypeMatch(file), tree |-> file.body]

\* (doctypeMatch ? doctypeMatch[0] + "\n" : "") + doc.documentElement.outerHTML
htmlOutput(d) ==
  [exists |-> TRUE, doctype |-> d.doctypeMatch, body |-> d.tree]

\* one stage of the call, as the log keeps it
Stage(stage, who, tree, ok) ==
  [stage |-> stage, who |-> who, tree |-> tree, ok |-> ok]

\* a stage throws: renderPandoc fails with that error
Throw(stage, who, error) ==
  /\ plog' = Append(plog, Stage(stage, who, <<>>, FALSE))
  /\ presult' = [NoRendered EXCEPT !.kind = "threw", !.error = error]
  /\ ppc' = "done"

\* states in which a renderPandoc call begins
InitPandoc ==
  /\ pin \in PandocInputs
  /\ ppc = "dependencies"
  /\ pidx = 0
  /\ disk = NoFile
  /\ doc = NoDocument
  /\ htmlResult = NoHtmlResult
  /\ plog = <<>>
  /\ presult = NoRendered

\* variant: the finalizers are given the document first
finalizersFirst(i, posts, finals) ==
  IF i = 0 /\ Len(finals) > 0 THEN "htmlFinalizer"
  ELSE IF i < Len(posts) THEN "htmlPostprocessor"
  ELSE "htmlWrite"

\* the stage after the i-th postprocessor of runHtmlPostprocessors
afterPostprocessor(i, posts, finals) ==
  IF i < Len(posts) THEN "htmlPostprocessor"
  ELSE IF Len(finals) > 0 THEN "htmlFinalizer" ELSE "htmlWrite"

\* variant: the file is written as soon as one finalizer has returned
writeAfterFirstFinalizer(i, finals) == "htmlWrite"

\* the stage after the i-th finalizer
afterFinalizer(i, finals) ==
  IF i < Len(finals) THEN "htmlFinalizer" ELSE "htmlWrite"

\* variant: the generic postprocessors are not run
genericSkipped(i, generic) == "complete"

\* the stage after the i-th generic postprocessor
afterGeneric(i, generic) ==
  IF i < Len(generic) THEN "postprocessor" ELSE "complete"

\* merge includes and options; engine.dependencies for every engine name
Dependencies ==
  /\ ppc = "dependencies"
  /\ plog' = IF pin.engineDependencies
             THEN Append(plog, Stage("dependencies", "", <<>>, TRUE))
             ELSE plog
  /\ ppc' = "converter"
  /\ UNCHANGED <<pin, pidx, disk, doc, htmlResult, presult>>
  /\ UNCHANGED outsidePandoc

\* variant: a missing converter result is not checked
converterNeverRejects(p) == FALSE

\* if (!pandocResult)
converterRejects(p) == ~p.converterOk

\* const pandocResult = await runPandoc(...); if (!pandocResult) reject
Converter ==
  /\ ppc = "converter"
  /\ IF ~converterRejects(pin)
     THEN /\ disk' = [exists |-> TRUE, doctype |-> pin.doctype, body |-> <<>>]
          /\ plog' = Append(plog, Stage("converter", "", <<>>, TRUE))
          /\ ppc' = "enginePostprocess"
          /\ UNCHANGED presult
     ELSE /\ plog' = Append(plog, Stage("converter", "", <<>>, FALSE))
          /\ presult' = [NoRendered EXCEPT !.kind = "rejected",
                                           !.error = "undefined"]
          /\ ppc' = "done"
          /\ UNCHANGED disk
  /\ UNCHANGED <<pin, pidx, doc, htmlResult>>
  /\ UNCHANGED outsidePandoc

\* if (executeResult.postProcess) await context.engine.postprocess(...)
EnginePostprocess ==
  /\ ppc = "enginePostprocess"
  /\ IF ~pin.postProcess
     THEN /\ ppc' = "htmlCheck"
          /\ UNCHANGED <<disk, plog, presult>>
     ELSE \/ /\ disk' = [disk EXCEPT !.body = Append(@, "engine")]
             /\ plog' = Append(plog, Stage("enginePostprocess", "", <<>>, TRUE))
             /\ ppc' = "htmlCheck"
             /\ UNCHANGED presult
          \/ /\ Throw("enginePostprocess", "", "EnginePostprocessError")
             /\ UNCHANGED disk
  /\ UNCHANGED <<pin, pidx, doc, htmlResult>>
  /\ UNCHANGED outsidePandoc

\* the check of lines 616-625, then the first lines of runHtmlPostprocessors:
\* postProcessResult = { resources: [], supporting: [] }, read and parse
HtmlBegin ==
  /\ ppc = "htmlCheck"
  /\ IF mustFailHtmlPostProcess(pin)
     THEN /\ Throw("htmlCheck", "", "NonHtmlPostprocessError")
          /\ UNCHANGED <<pidx, doc, htmlResult>>
     ELSE LET posts == htmlPostProcessors(pin)
              finals == htmlFinalizers(pin)
          IN /\ htmlResult' = [resources |-> <<>>, supporting |-> <<>>]
             /\ UNCHANGED presult
             /\ IF pipelineRuns(posts, finals)
                THEN /\ doc' = parseFromString(disk)
                     /\ plog' = Append(plog, Stage("htmlRead", "", disk.body, TRUE))
                     /\ pidx' = 1
                     /\ ppc' = afterPostprocessor(0, posts, finals)
                ELSE /\ pidx' = IF Len(pin.postprocessors) > 0 THEN 1 ELSE 0
                     /\ ppc' = afterGeneric(0, pin.postprocessors)
                     /\ UNCHANGED <<doc, plog>>
  /\ UNCHANGED <<pin, disk>>
  /\ UNCHANGED outsidePandoc

\* variant: an element already collected is not added again
pushNew(list, items) ==
  list \o SelectSeq(items, LAMBDA x : \A k \in 1..Len(list) : list[k] # x)

\* list.push(...items)
push(list, items) == list \o items

\* const result = await postprocessor(doc, inputMetadata); push the lists
HtmlPostprocessor ==
  /\ ppc = "htmlPostprocessor"
  /\ LET posts == htmlPostProcessors(pin)
         finals == htmlFinalizers(pin)
         name == posts[pidx]
         result == postprocessorResult(name)
     IN \/ /\ doc' = [doc EXCEPT !.tree = Append(@, name)]
           /\ htmlResult' =
                [resources |-> push(htmlResult.resources, result.resources),
                 supporting |-> push(htmlResult.supporting, result.supporting)]
           /\ plog' = Append(plog, Stage("htmlPostprocessor", name, doc.tree, TRUE))
           /\ ppc' = afterPostprocessor(pidx, posts, finals)
           /\ pidx' = IF pidx < Len(posts) THEN pidx + 1 ELSE 1
           /\ UNCHANGED presult
        \/ /\ Throw("htmlPostprocessor", name, "PostprocessorError")
           /\ UNCHANGED <<doc, htmlResult, pidx>>
  /\ UNCHANGED <<pin, disk>>
  /\ UNCHANGED outsidePandoc

\* await finalizer(doc)
HtmlFinalizer ==
  /\ ppc = "htmlFinalizer"
  /\ LET finals == htmlFinalizers(pin)
         name == finals[pidx]
     IN \/ /\ doc' = [doc EXCEPT !.tree = Append(@, name)]
           /\ plog' = Append(plog, Stage("htmlFinalizer", name, doc.tree, TRUE))
           /\ ppc' = afterFinalizer(pidx, finals)
           /\ pidx' = IF pidx < Len(finals) THEN pidx + 1 ELSE 1
           /\ UNCHANGED presult
        \/ /\ Throw("htmlFinalizer", name, "FinalizerError")
           /\ UNCHANGED <<doc, pidx>>
  /\ UNCHANGED <<pin, disk, htmlResult>>
  /\ UNCHANGED outsidePandoc

\* Deno.writeTextFileSync(outputFile, htmlOutput); return postProcessResult
HtmlWrite ==
  /\ ppc = "htmlWrite"
  /\ disk' = htmlOutput(doc)
  /\ plog' = Append(plog, Stage("htmlWrite", "", doc.tree, TRUE))
  /\ pidx' = IF Len(pin.postprocessors) > 0 THEN 1 ELSE 0
  /\ ppc' = afterGeneric(0, pin.postprocessors)
  /\ UNCHANGED <<pin, doc, htmlResult, presult>>
  /\ UNCHANGED outsidePandoc

\* for (const postprocessor of pandocResult.postprocessors) await postprocessor(outputFile)
Postprocessor ==
  /\ ppc = "postprocessor"
  /\ LET name == pin.postprocessors[pidx]
     IN \/ /\ disk' = [disk EXCEPT !.body = Append(@, name)]
           /\ plog' = Append(plog, Stage("postprocessor", name, <<>>, TRUE))
           /\ ppc' = afterGeneric(pidx, pin.postprocessors)
           /\ pidx' = IF pidx < Len(pin.postprocessors) THEN pidx + 1 ELSE 0
           /\ UNCHANGED presult
        \/ /\ Throw("postprocessor", name, "GenericPostprocessorError")
           /\ UNCHANGED <<disk, pidx>>
  /\ UNCHANGED <<pin, doc, htmlResult>>
  /\ UNCHANGED outsidePandoc

\* const finalOutput = await recipe.complete(pandocOptions) || recipe.output
CompleteHook ==
  /\ ppc = "complete"
  /\ \/ /\ plog' = Append(plog, Stage("complete", "", <<>>, TRUE))
        /\ ppc' = "cleanup"
        /\ UNCHANGED presult
     \/ Throw("complete", "", "CompleteHookError")
  /\ UNCHANGED <<pin, pidx, disk, doc, htmlResult>>
  /\ UNCHANGED outsidePandoc

\* renderCleanup(...); return the RenderedFile
Cleanup ==
  /\ ppc = "cleanup"
  /\ plog' = Append(plog, Stage("cleanup", "", <<>>, TRUE))
  /\ presult' = [kind |-> "returned", error |-> "none",
                 resources |-> htmlResult.resources,
                 supporting |-> htmlResult.supporting]
  /\ ppc' = "done"
  /\ UNCHANGED <<pin, pidx, disk, doc, htmlResult>>
  /\ UNCHANGED outsidePandoc

NextPandoc ==
  \/ Dependencies
  \/ Converter
  \/ EnginePostprocess
  \/ HtmlBegin
  \/ HtmlPostprocessor
  \/ HtmlFinalizer
  \/ HtmlWrite
  \/ Postprocessor
  \/ CompleteHook
  \/ Cleanup

\* a renderPandoc call begins
InitRenderPandoc == InitExec /\ InitFilesIdle /\ InitPandoc /\ InitPureIdle

SpecPandoc == InitRenderPandoc /\ [][NextPandoc]_vars

(***************************************************************************)
(* Vocabulary of the properties of renderFiles, continued.                 *)
(***************************************************************************)
\* the steps renderFiles performs for one context
ContextSteps ==
  {"setup", "validate", "skipValidate", "execute", "ojs", "onRender"}

\* the converter failed: renderPandoc rejected without a value inside onRender
ConverterFailed == thrownAt = "onRender" /\ thrown = "undefined"

\* position of the first failed step of the try block (0: none)
FirstFailure(t) ==
  IF \E k \in 1..Len(t) : ~t[k].ok /\ t[k].step \in BodySteps
  THEN CHOOSE k \in 1..Len(t) :
         /\ ~t[k].ok /\ t[k].step \in BodySteps
         /\ \A j \in 1..(k - 1) : t[j].ok \/ t[j].step \notin BodySteps
  ELSE 0

(***************************************************************************)
(* C11. A converter failure in one (file, format) context ends the whole   *)
(* run: after the failed onRender no step of any context is performed, the *)
(* remaining formats of the file are never set up, and the only renderer   *)
(* callback still made is onComplete in partial mode.                      *)
(***************************************************************************)
C11_ConverterFailureEndsRun ==
  ConverterFailed =>
    LET k == FirstFailure(trace)
    IN /\ k > 0
       /\ trace[k].step = "onRender"
       /\ \A j \in (k + 1)..Len(trace) :
            /\ trace[j].step \notin ContextSteps \cup {"contexts"}
            /\ trace[j].step = "onComplete" => trace[j].format = "true"
       /\ \A c \in (ci + 1)..Len(contexts) :
            \A j \in 1..Len(trace) :
              ~(trace[j].file = fi /\ trace[j].format = contexts[c]
                /\ trace[j].step \in ContextSteps)

C11_Witness ==
  /\ FilesDone
  /\ ConverterFailed
  /\ ci < Len(contexts)
  /\ fi < NumFiles
  /\ outcome.returned

\* C11 as stated: the contexts after the failed one are still rendered
C11_Original ==
  (FilesDone /\ ConverterFailed /\ ci < Len(contexts)) =>
    \E j \in 1..Len(trace) :
      /\ trace[j].step = "onRender"
      /\ trace[j].ok
      /\ trace[j].file = fi
      /\ trace[j].format = contexts[ci + 1]

(***************************************************************************)
(* Vocabulary of the properties of renderPandoc.                           *)
(***************************************************************************)
\* a renderPandoc call has returned, rejected or thrown
PandocDone == ppc = "done"

\* the stages of the log, in order
StagesOf(t) == [k \in 1..Len(t) |-> t[k].stage]

\* the names the stage was invoked with, in order
RECURSIVE Invoked(_, _)
Invoked(t, stage) ==
  IF t = <<>> THEN <<>>
  ELSE (IF Head(t).stage = stage THEN <<Head(t).who>> ELSE <<>>)
       \o Invoked(Tail(t), stage)

\* the stages that follow the converter
LaterStages ==
  {"enginePostprocess", "htmlCheck", "htmlRead", "htmlPostprocessor",
   "htmlFinalizer", "htmlWrite", "postprocessor", "complete", "cleanup"}

(***************************************************************************)
(* C12. When the converter returns no result renderPandoc rejects and      *)
(* produces no RenderedFile, and no later stage runs: no engine            *)
(* postprocess, no HTML postprocessor or finalizer, no generic             *)
(* postprocessor, no completion hook, no cleanup; the output file is not   *)
(* touched.                                                                *)
(***************************************************************************)
C12_NoResultRejects ==
  (~pin.idle /\ ~pin.converterOk /\ ppc \notin {"dependencies", "converter"}) =>
    /\ PandocDone
    /\ presult.kind = "rejected"
    /\ presult.error = "undefined"
    /\ \A k \in 1..Len(plog) : plog[k].stage \notin LaterStages
    /\ plog[Len(plog)] = Stage("converter", "", <<>>, FALSE)
    /\ disk = NoFile
    /\ doc = NoDocument

C12_Witness ==
  /\ ~pin.idle
  /\ PandocDone
  /\ ~pin.converterOk
  /\ pin.postProcess
  /\ pin.htmlOutput
  /\ Len(pin.htmlPostprocessors) > 0
  /\ Len(pin.htmlFinalizers) > 0
  /\ Len(pin.postprocessors) > 0
  /\ presult.kind = "rejected"

(***************************************************************************)
(* C13. When the output is not an HTML file and the converter result       *)
(* registers at least one HTML postprocessor, renderPandoc fails with an   *)
(* error and produces no RenderedFile; and an HTML postprocessor or        *)
(* finalizer is never invoked, nor the file parsed or rewritten, for an    *)
(* output that is not an HTML file.                                        *)
(***************************************************************************)
C13_NonHtmlPostprocessFails ==
  (~pin.idle /\ ~pin.htmlOutput) =>
    /\ \A k \in 1..Len(plog) :
         plog[k].stage \notin
           {"htmlRead", "htmlPostprocessor", "htmlFinalizer", "htmlWrite"}
    /\ (PandocDone /\ pin.converterOk /\ Len(pin.htmlPostprocessors) > 0) =>
         /\ presult.kind = "threw"
         /\ presult.error \in {"NonHtmlPostprocessError", "EnginePostprocessError"}
         /\ presult.error = "NonHtmlPostprocessError" <=>
              plog[Len(plog)] = Stage("htmlCheck", "", <<>>, FALSE)
         /\ \A k \in 1..Len(plog) :
              plog[k].stage \notin {"postprocessor", "complete", "cleanup"}

C13_Witness ==
  /\ ~pin.idle
  /\ PandocDone
  /\ pin.converterOk
  /\ ~pin.htmlOutput
  /\ Len(pin.htmlPostprocessors) = 2
  /\ Len(pin.htmlFinalizers) > 0
  /\ presult.kind = "threw"
  /\ presult.error = "NonHtmlPostprocessError"

\* runHtmlPostprocessors is about to be called with two empty lists
EmptyPipelineCall ==
  /\ ppc = "htmlCheck"
  /\ ~(~pin.htmlOutput /\ Len(pin.htmlPostprocessors) > 0)
  /\ pin.htmlOutput => (pin.htmlPostprocessors = <<>> /\ pin.htmlFinalizers = <<>>)

(***************************************************************************)
(* C14. runHtmlPostprocessors called with an empty postprocessor list and  *)
(* an empty finalizer list neither reads nor writes the output file, which *)
(* stays as it was, parses no document, and returns empty resources and    *)
(* supporting lists.                                                       *)
(***************************************************************************)
C14_EmptyPipelineIsNoOp ==
  [][EmptyPipelineCall =>
       /\ disk' = disk
       /\ doc' = doc
       /\ plog' = plog
       /\ presult' = presult
       /\ htmlResult' = [resources |-> <<>>, supporting |-> <<>>]
       /\ ppc' \in {"postprocessor", "complete"}]_vars

C14_Witness ==
  /\ ~pin.idle
  /\ ppc \in {"postprocessor", "complete"}
  /\ pin.htmlOutput
  /\ pin.htmlPostprocessors = <<>>
  /\ pin.htmlFinalizers = <<>>
  /\ disk.exists
  /\ disk.doctype = "<!doctype html>"
  /\ htmlResult = NoHtmlResult
  /\ \A k \in 1..Len(plog) : plog[k].stage \notin {"htmlRead", "htmlWrite"}

\* s is an initial segment of t
IsPrefix(s, t) == Len(s) <= Len(t) /\ \A k \in 1..Len(s) : s[k] = t[k]

\* the names whose invocation of that stage returned before position n
RECURSIVE ReturnedBefore(_, _, _)
ReturnedBefore(t, stages, n) ==
  IF n <= 1 THEN <<>>
  ELSE ReturnedBefore(t, stages, n - 1)
       \o (IF t[n - 1].stage \in stages /\ t[n - 1].ok
           THEN <<t[n - 1].who>> ELSE <<>>)

\* the tree the pipeline parsed from the file
ParsedTree(t) ==
  IF \E k \in 1..Len(t) : t[k].stage = "htmlRead"
  THEN t[CHOOSE k \in 1..Len(t) : t[k].stage = "htmlRead"].tree
  ELSE <<>>

(***************************************************************************)
(* C15. runHtmlPostprocessors invokes the postprocessors in registration   *)
(* order, one at a time and each at most once, every one on the single     *)
(* tree parsed from the file as the earlier ones left it; the finalizers   *)
(* follow in registration order, and a finalizer only ever starts after    *)
(* every postprocessor has returned. When the file is written every        *)
(* postprocessor and every finalizer has run exactly once.                 *)
(***************************************************************************)
C15_RegistrationOrder ==
  ~pin.idle =>
    /\ IsPrefix(Invoked(plog, "htmlPostprocessor"), pin.htmlPostprocessors)
    /\ IsPrefix(Invoked(plog, "htmlFinalizer"), pin.htmlFinalizers)
    /\ \A k \in 1..Len(plog) :
         /\ plog[k].stage = "htmlFinalizer" =>
              ReturnedBefore(plog, {"htmlPostprocessor"}, k)
                = pin.htmlPostprocessors
         /\ (plog[k].stage \in {"htmlPostprocessor", "htmlFinalizer"}
             /\ plog[k].ok) =>
              plog[k].tree =
                ParsedTree(plog)
                  \o ReturnedBefore(plog,
                       {"htmlPostprocessor", "htmlFinalizer"}, k)
         /\ plog[k].stage = "htmlWrite" =>
              /\ ReturnedBefore(plog, {"htmlPostprocessor"}, k)
                   = pin.htmlPostprocessors
              /\ ReturnedBefore(plog, {"htmlFinalizer"}, k)
                   = pin.htmlFinalizers

C15_Witness ==
  /\ ~pin.idle
  /\ pin.htmlPostprocessors = <<"b", "a">>
  /\ pin.htmlFinalizers = <<"f", "g">>
  /\ pin.postProcess
  /\ \E k \in 1..Len(plog) :
       plog[k].stage = "htmlWrite" /\ plog[k].tree = <<"engine", "b", "a", "f", "g">>

\* the lists the named postprocessors returned, one after the other
RECURSIVE ResourcesOf(_)
ResourcesOf(names) ==
  IF names = <<>> THEN <<>>
  ELSE postprocessorResult(Head(names)).resources \o ResourcesOf(Tail(names))

RECURSIVE SupportingOf(_)
SupportingOf(names) ==
  IF names = <<>> THEN <<>>
  ELSE postprocessorResult(Head(names)).supporting \o SupportingOf(Tail(names))

(***************************************************************************)
(* C16. The resources list, and likewise the supporting list, of           *)
(* runHtmlPostprocessors is the concatenation, in registration order, of   *)
(* the lists the postprocessors returned: duplicates are kept, nothing is  *)
(* dropped or reordered, and the finalizers add nothing.                   *)
(***************************************************************************)
C16_ListsAreConcatenated ==
  ~pin.idle =>
    LET returned ==
          ReturnedBefore(plog, {"htmlPostprocessor"}, Len(plog) + 1)
    IN /\ htmlResult.resources = ResourcesOf(returned)
       /\ htmlResult.supporting = SupportingOf(returned)
       /\ presult.kind = "returned" =>
            /\ returned = htmlPostProcessors(pin)
            /\ presult.resources = ResourcesOf(returned)
            /\ presult.supporting = SupportingOf(returned)

C16_Witness ==
  /\ ~pin.idle
  /\ presult.kind = "returned"
  /\ pin.htmlPostprocessors = <<"b", "a">>
  /\ pin.htmlFinalizers = <<"f", "g">>
  /\ presult.resources = <<"y.js", "x.css", "y.js">>
  /\ presult.supporting = <<"libs">>

\* the stages of runHtmlPostprocessors
PipelineStages == {"htmlCheck", "htmlPostprocessor", "htmlFinalizer", "htmlWrite"}

\* number of times the pipeline has written the output file
Writes(t) == Cardinality({k \in 1..Len(t) : t[k].stage = "htmlWrite"})

\* the output file as runHtmlPostprocessors found it
FileBeforePipeline ==
  [exists |-> TRUE, doctype |-> pin.doctype, body |-> ParsedTree(plog)]

(***************************************************************************)
(* C17. runHtmlPostprocessors overwrites the output file at most once, and *)
(* only after every postprocessor and every finalizer has returned; when a *)
(* postprocessor or finalizer throws, the failure leaves renderPandoc, no  *)
(* later stage runs, and the file on disk is as it was before the call.    *)
(***************************************************************************)
C17_WriteOnceAtTheEnd ==
  [][/\ (ppc \in PipelineStages /\ disk' # disk) =>
          /\ ppc = "htmlWrite"
          /\ Writes(plog) = 0
          /\ Writes(plog') = 1
          /\ ReturnedBefore(plog, {"htmlPostprocessor"}, Len(plog) + 1)
               = pin.htmlPostprocessors
          /\ ReturnedBefore(plog, {"htmlFinalizer"}, Len(plog) + 1)
               = pin.htmlFinalizers
     /\ (ppc \in {"htmlPostprocessor", "htmlFinalizer"} /\ ~plog'[Len(plog')].ok) =>
          /\ ppc' = "done"
          /\ presult'.kind = "threw"
          /\ presult'.error \in {"PostprocessorError", "FinalizerError"}
          /\ Writes(plog') = 0
          /\ disk' = FileBeforePipeline
     /\ Writes(plog') <= 1]_vars

C17_Witness ==
  /\ ~pin.idle
  /\ PandocDone
  /\ presult.kind = "threw"
  /\ presult.error = "FinalizerError"
  /\ pin.htmlPostprocessors = <<"a", "b">>
  /\ Invoked(plog, "htmlFinalizer") = <<"f", "g">>
  /\ pin.postProcess
  /\ disk = [exists |-> TRUE, doctype |-> "<!doctype html>", body |-> <<"engine">>]

\* the step that must have completed just before the given step of a context
StepBefore(step) ==
  CASE step \in {"validate", "skipValidate"} -> {"setup"}
    [] step = "execute" -> {"validate", "skipValidate"}
    [] step = "ojs" -> {"execute"}
    [] step = "onRender" -> {"ojs"}
    [] OTHER -> {}

\* the formats of the contexts of a file that were begun, in order
RECURSIVE BegunOf(_, _)
BegunOf(t, file) ==
  IF t = <<>> THEN <<>>
  ELSE (IF Head(t).step = "setup" /\ Head(t).file = file
        THEN <<Head(t).format>> ELSE <<>>)
       \o BegunOf(Tail(t), file)

(***************************************************************************)
(* C18. renderFiles takes the files in list order and, per file, the       *)
(* resolved formats one at a time in key order: a context is begun only    *)
(* when the previous one has completed its last step (onRender), every     *)
(* step of a context directly follows the completed previous step of the   *)
(* same context, and no context is begun twice; so no two contexts are in  *)
(* progress at the same time.                                              *)
(***************************************************************************)
C18_OneContextAtATime ==
  /\ \A k \in 1..Len(trace) :
       LET e == trace[k]
       IN /\ e.step = "setup" =>
               /\ k > 1
               /\ trace[k - 1].ok
               /\ trace[k - 1].file = e.file
               /\ \/ trace[k - 1].step = "contexts"
                  \/ /\ trace[k - 1].step = "onRender"
                     /\ trace[k - 1].format # e.format
          /\ e.step \in ContextSteps \ {"setup"} =>
               /\ k > 1
               /\ trace[k - 1].ok
               /\ trace[k - 1].step \in StepBefore(e.step)
               /\ trace[k - 1].file = e.file
               /\ trace[k - 1].format = e.format
          /\ \A j \in 1..(k - 1) :
               /\ trace[j].file <= e.file
               /\ (e.step = "setup" /\ trace[j].step = "setup") =>
                    <<trace[j].file, trace[j].format>> # <<e.file, e.format>>
  /\ fpc \in ContextSteps =>
       IsPrefix(BegunOf(trace, fi), contexts)

C18_Witness ==
  /\ FilesDone
  /\ outcome.returned
  /\ outcome.error = "none"
  /\ outcome.files =
       <<[file |-> 1, format |-> "html"], [file |-> 1, format |-> "pdf"],
         [file |-> 2, format |-> "html"], [file |-> 2, format |-> "pdf"]>>

\* renderFiles has decided what it returns or throws
Decided == outcome.returned \/ outcome.threw # "none"

(***************************************************************************)
(* C19. The temporary context of a renderFiles call is cleaned up exactly  *)
(* once before the call returns: on the success path, on the failure path  *)
(* and when the completion callback itself fails; and never while a        *)
(* context of the call is still being processed.                           *)
(***************************************************************************)
C19_CleanupExactlyOnce ==
  /\ cleanups <= 1
  /\ FilesDone => (cleanups = 1 /\ Decided)
  /\ cleanups > 0 =>
       /\ FilesDone
       /\ trace[Len(trace)].step = "cleanup"
       /\ \A k \in 1..(Len(trace) - 1) : trace[k].step # "cleanup"
  /\ fpc \in ContextSteps \cup {"contexts", "rediagnose", "complete", "catch"} =>
       cleanups = 0

C19_Witness ==
  /\ FilesDone
  /\ cleanups = 1
  /\ thrownAt = "execute"
  /\ outcome.threw = "CompleteError"
  /\ Len(renderedFiles) >= 1

\* a failed validation ends the run with the RenderInvalidYAMLError
ValidationIsFatal ==
  \A k \in 1..Len(trace) :
    /\ trace[k].step = "execute" =>
         /\ k > 1
         /\ trace[k - 1].step \in {"validate", "skipValidate"}
         /\ trace[k - 1].ok
         /\ trace[k - 1].file = trace[k].file
         /\ trace[k - 1].format = trace[k].format
    /\ (trace[k].step = "validate" /\ ~trace[k].ok) =>
         /\ thrown = "RenderInvalidYAMLError"
         /\ thrownAt = "validate"
         /\ \A j \in (k + 1)..Len(trace) :
              trace[j].step \notin ContextSteps \cup {"contexts"}
         /\ FilesDone =>
              \/ outcome.returned /\ outcome.error = "RenderInvalidYAMLError"
              \/ renderer = "custom" /\ outcome.threw = "CompleteError"

(***************************************************************************)
(* C20. For every context whose format does not set validate-yaml to       *)
(* false renderFiles validates the front matter before the execution, and  *)
(* a validation failure is fatal: a RenderInvalidYAMLError is thrown, the  *)
(* engine is not executed and onRender is not called for that context or a *)
(* later one, and the error is what renderFiles reports once the renderer  *)
(* has completed in partial mode. With validate-yaml false the validation  *)
(* is skipped and the execution follows.                                   *)
(***************************************************************************)
C20_ValidationBeforeExecute ==
  [][/\ fpc = "validate" =>
          LET e == trace'[Len(trace')]
          IN /\ Len(trace') = Len(trace) + 1
             /\ e.file = fi /\ e.format = contexts[ci]
             /\ validateYaml = "false" =>
                  (e.step = "skipValidate" /\ fpc' = "execute")
             /\ validateYaml # "false" =>
                  /\ e.step = "validate"
                  /\ e.ok => fpc' = "execute"
                  /\ ~e.ok => (fpc' = "catch" /\ thrown' = "RenderInvalidYAMLError")
     /\ fpc' = "execute" => fpc = "validate"
     /\ ValidationIsFatal']_vars

C20_Witness ==
  /\ FilesDone
  /\ thrownAt = "validate"
  /\ validateYaml = "undefined"
  /\ outcome.returned
  /\ outcome.error = "RenderInvalidYAMLError"
  /\ Len(outcome.files) >= 1
  /\ ci < Len(contexts)

(***************************************************************************)
(* C21. When renderContexts fails for a file, renderFiles re-derives       *)
(* engine and target and re-validates the document source: the failure it  *)
(* reports is a RenderInvalidYAMLError when the validation finds an error  *)
(* and the original failure, unchanged, when it finds none; in both cases  *)
(* no context of that file, nor any later context, is set up or executed.  *)
(***************************************************************************)
C21_RediagnoseContextFailure ==
  \A k \in 1..Len(trace) :
    (trace[k].step = "contexts" /\ ~trace[k].ok) =>
      /\ thrownAt = "contexts"
      /\ \A j \in 1..Len(trace) :
           trace[j].file = trace[k].file => trace[j].step \notin ContextSteps
      /\ \A j \in (k + 1)..Len(trace) :
           trace[j].step \notin ContextSteps \cup {"contexts"}
      /\ k < Len(trace) =>
           /\ trace[k + 1].step = "rediagnose"
           /\ trace[k + 1].format = "errors" => thrown = "RenderInvalidYAMLError"
           /\ trace[k + 1].format = "valid" => thrown = "ContextError"
           /\ (FilesDone /\ outcome.returned) => outcome.error = thrown

C21_Witness ==
  /\ FilesDone
  /\ thrownAt = "contexts"
  /\ fi = 2
  /\ Len(renderedFiles) >= 1
  /\ trace[Len(trace) - 2].step = "rediagnose"
  /\ trace[Len(trace) - 2].format = "valid"
  /\ outcome.returned
  /\ outcome.error = "ContextError"

\* number of times the step was started for the context (file, format)
Attempts(t, step, file, format) ==
  Cardinality({k \in 1..Len(t) :
                 t[k].step = step /\ t[k].file = file /\ t[k].format = format})

(***************************************************************************)
(* C22. No implicit retries: in one renderFiles run renderExecute (and so  *)
(* the engine's execute operation) and the onRender callback (and so the   *)
(* converter) are each invoked at most once per (file, format) context,    *)
(* whether the invocation returned or failed; so are the validation and    *)
(* the secondary processing.                                               *)
(***************************************************************************)
C22_NoRetries ==
  \A k \in 1..Len(trace) :
    trace[k].step \in ContextSteps =>
      Attempts(trace, trace[k].step, trace[k].file, trace[k].format) = 1

C22_Witness ==
  /\ FilesDone
  /\ thrownAt = "execute"
  /\ fi = 2
  /\ ci = 2
  /\ Len(renderedFiles) = 3
  /\ Attempts(trace, "execute", 2, "pdf") = 1
  /\ ~trace[Len(trace) - 2].ok

(***************************************************************************)
(* C23. During one renderFiles run the one-time HTML environment           *)
(* initialization is performed at most once, whatever the number of HTML   *)
(* compatible contexts, and it has been performed when the first step      *)
(* after the setup of an HTML compatible context (validation, execution)   *)
(* begins; a run without such a context performs none.                     *)
(***************************************************************************)
C23_InitDenoDomOnce ==
  /\ domInits <= 1
  /\ \A k \in 1..Len(trace) :
       (trace[k].format = "html" /\ trace[k].step \in ContextSteps) =>
         domInits = 1
  /\ domInits = 1 =>
       \E k \in 1..Len(trace) :
         trace[k].step = "setup" /\ trace[k].format = "html"

C23_Witness ==
  /\ FilesDone
  /\ domInits = 1
  /\ Attempts(trace, "execute", 1, "html") = 1
  /\ Attempts(trace, "execute", 2, "html") = 1
  /\ Attempts(trace, "execute", 1, "pdf") = 1

(***************************************************************************)
(* One call of resolveFormats.  InitResolveFormats draws the arguments     *)
(* that decide the names of the formats, InitMergeFormats those that       *)
(* decide their options.                                                   *)
(***************************************************************************)
ProjectKeyLists == {<<>>, <<"html">>, <<"pdf">>, <<"pdf", "html">>}
DirectoryKeyLists == {<<>>, <<"docx">>}
InputKeyLists == {<<>>, <<"html">>, <<"pdf", "html">>, <<"docx">>}
FlagsToValues == {Unset, "all", "default", "pdf", "html,pdf", "docx"}
FileFormatsValues == {NoFileFormats, FileFormats({"html"}), FileFormats({"docx"})}

\* without a project there is neither project nor directory metadata and
\* the project type is the default one
WithoutProject(call) == call.projType = "default" /\ call.proj = EmptyMetadata /\ call.dir = EmptyMetadata

InitResolveFormats ==
  /\ InitExec /\ InitFilesIdle /\ InitPandocIdle
  /\ \E project \in BOOLEAN, type \in {"default", "website", "book"},
        projKeys \in ProjectKeyLists, dirKeys \in DirectoryKeyLists,
        inputKeys \in InputKeyLists, projTo \in {Unset, "pdf"},
        projWriter \in {Unset, "docx"}, inputTo \in {Unset, "docx"},
        file \in FileFormatsValues, to \in FlagsToValues :
       /\ fin = Call(project, type,
                     Metadata(projKeys, projTo, projWriter, Unset, Unset, Unset, Unset, Unset),
                     Metadata(dirKeys, Unset, Unset, Unset, Unset, Unset, Unset, Unset),
                     Metadata(inputKeys, inputTo, Unset, Unset, Unset, Unset, Unset, Unset),
                     file, to, Unset)
       /\ ~project => WithoutProject(fin)
  /\ fout = NotReturned
  /\ scin = NotCalled
  /\ scout = NotReturned
  /\ rin = NotCalled
  /\ rout = NotReturned
  /\ cin = NotCalled
  /\ cst = NotReturned

InitMergeFormats ==
  /\ InitExec /\ InitFilesIdle /\ InitPandocIdle
  /\ \E project \in BOOLEAN, type \in {"default", "website", "book"},
        keys \in {<<"html">>, <<"docx">>}, projKeys \in {<<>>, <<"html">>},
        projToc \in {Unset, "p"}, dirToc \in {Unset, "d"}, inputToc \in {Unset, "i"},
        projTheme \in {Unset, "cosmo", "none"}, dirTheme \in {Unset, "darkly"},
        inputTheme \in {Unset, "darkly", "none"},
        projEcho \in {Unset, "true"}, dirEcho \in {Unset, "false"},
        inputEcho \in {Unset, "fenced"},
        server \in {Unset, "shiny"},
        projCache \in {Unset, "true"}, inputCache \in {Unset, "false"},
        executeCache \in {Unset, "refresh"} :
       /\ fin = Call(project, type,
                     Metadata(projKeys, Unset, Unset, projToc, projTheme, projEcho, Unset, projCache),
                     Metadata(<<>>, Unset, Unset, dirToc, dirTheme, dirEcho, Unset, Unset),
                     Metadata(keys, Unset, Unset, inputToc, inputTheme, inputEcho, server, inputCache),
                     NoFileFormats, Unset, executeCache)
       /\ ~project => WithoutProject(fin)
  /\ fout = NotReturned
  /\ scin = NotCalled
  /\ scout = NotReturned
  /\ rin = NotCalled
  /\ rout = NotReturned
  /\ cin = NotCalled
  /\ cst = NotReturned

ResolveFormats ==
  /\ ~fin.idle
  /\ ~fout.returned
  /\ fout' = [returned |-> TRUE, formats |-> resolveFormats(fin)]
  /\ UNCHANGED <<execVars, filesVars, pandocVars, fin, scin, scout, rin, rout, cin, cst>>

NextFormats == ResolveFormats

SpecFormats == InitResolveFormats /\ [][NextFormats]_vars

SpecMerge == InitMergeFormats /\ [][NextFormats]_vars

\* the names of the formats that resolveFormats returned, in order
Resolved == [k \in 1..Len(fout.formats) |-> fout.formats[k].name]

\* the Format that resolveFormats returned under a name
FormatOf(name) == (CHOOSE f \in Names(fout.formats) : f.name = name).format

\* the project type supports every one of these formats
Supported(names) == \A k \in 1..Len(names) : names[k] \notin projectType(fin.projType).unsupported

\* the names among these that the project type supports, in order
Kept(names) == SelectSeq(names, LAMBDA n : n \notin projectType(fin.projType).unsupported)

\* no layer declares a format key
NoFormatKeys == fin.proj.keys = <<>> /\ fin.dir.keys = <<>> /\ fin.input.keys = <<>>

\* the candidate names as the rule of the specification gives them
Declared ==
  IF projectType(fin.projType).projectFormatsOnly THEN Names(fin.proj.keys)
  ELSE IF fin.input.keys # <<>> \/ fin.dir.keys # <<>>
       THEN Names(fin.input.keys) \cup Names(fin.dir.keys)
  ELSE Names(fin.proj.keys)

(***************************************************************************)
(* C24: with neither file.formats nor flags.to, the formats resolveFormats *)
(* returns are those that the candidate rule names (the project's keys for *)
(* a projectFormatsOnly type; otherwise the keys of the input and of its   *)
(* directory when there are any, and the project's keys ignored; otherwise *)
(* the project's keys), less those the project type does not support.  An  *)
(* input declaring one format under empty directory and project metadata   *)
(* resolves to exactly that format.                                        *)
(***************************************************************************)
C24_CandidateRule ==
  (fout.returned /\ ~fin.file.defined /\ fin.flags.to = Unset /\ Declared # {})
    => /\ Names(Resolved) = {n \in Declared : Supported(<<n>>)}
       /\ \A F \in {"html", "pdf", "docx"} :
            (/\ fin.input.keys = <<F>>
             /\ fin.dir = EmptyMetadata
             /\ fin.proj.keys = <<>>
             /\ Supported(<<F>>)) => Resolved = <<F>>

C24_Witness ==
  /\ fout.returned /\ ~fin.file.defined /\ fin.flags.to = Unset
  /\ fin.projType = "default"
  /\ fin.proj.keys = <<"html">>
  /\ fin.dir.keys = <<"docx">>
  /\ fin.input.keys = <<"pdf", "html">>
  /\ Resolved = <<"pdf", "html", "docx">>

(***************************************************************************)
(* C25: for a file without file.formats and candidate formats L (the       *)
(* array after the default was provided), the formats returned are, less   *)
(* those the project type does not support: all of L when flags.to is      *)
(* absent or "all"; the first of L when it is "default"; the names of the  *)
(* comma-separated list, in its order, when it is an explicit list.  An    *)
(* input declaring pdf and html, rendered with to=pdf, resolves to pdf.    *)
(***************************************************************************)
C25_FlagsToSelects ==
  (fout.returned /\ ~fin.file.defined)
    => LET L == layers(fin).proj.formats
           to == fin.flags.to
       IN /\ to \in {Unset, "all"} => Resolved = Kept(L)
          /\ to = "default" => Resolved = Kept(<<L[1]>>)
          /\ to = "pdf" => Resolved = Kept(<<"pdf">>)
          /\ to = "docx" => Resolved = Kept(<<"docx">>)
          /\ to = "html,pdf" => Resolved = Kept(<<"html", "pdf">>)

C25_Witness ==
  /\ fout.returned /\ ~fin.file.defined
  /\ fin.input.keys = <<"pdf", "html">>
  /\ fin.flags.to = "pdf"
  /\ Resolved = <<"pdf">>

(***************************************************************************)
(* C26: every format that resolveFormats returns for a file with           *)
(* file.formats is one of file.formats.                                    *)
(***************************************************************************)
C26_OnlyPermissibleFormats ==
  (fout.returned /\ fin.file.defined) => Names(Resolved) \subseteq fin.file.names

(***************************************************************************)
(* C27: when no layer declares a format key and flags.to names no format,  *)
(* resolveFormats resolves the project, directory and input layers for one *)
(* and the same name, the base converter target of the first (project)     *)
(* layer: its `to`, else its `writer`, else "html"; that format is the     *)
(* result when the project type supports it.  With no to and no writer     *)
(* either the result is html with output extension "html".                 *)
(***************************************************************************)
C27_DefaultFormat ==
  (/\ fout.returned
   /\ NoFormatKeys
   /\ fin.file.defined \/ fin.flags.to \in {Unset, "all", "default"})
    => LET base == IF fin.proj.to # Unset THEN fin.proj.to
                   ELSE IF fin.proj.writer # Unset THEN fin.proj.writer
                   ELSE "html"
       IN /\ layers(fin).proj.names = <<base>>
          /\ layers(fin).dir.names = <<base>>
          /\ layers(fin).input.names = <<base>>
          /\ Resolved = Kept(<<base>>)
          /\ (fin.proj.to = Unset /\ fin.proj.writer = Unset /\ fin.input.to = Unset)
               => Resolved = <<"html">> /\ FormatOf("html").ext = "html"

C27_Witness ==
  /\ fout.returned /\ NoFormatKeys /\ fin.flags.to = Unset
  /\ fin.proj.to = Unset
  /\ fin.proj.writer = "docx"
  /\ Resolved = <<"docx">>

\* the options of a Format that a layer can set
OptionKeys == {"toc", "theme", "echo", "cache"}

\* the number of layers that set an option
SetIn(key) == Cardinality({layer \in {"proj", "dir", "input"} : fin[layer][key] # Unset})

\* the value of an option by the precedence input > directory > project
Layered(key) ==
  IF fin.input[key] # Unset THEN fin.input[key]
  ELSE IF fin.dir[key] # Unset THEN fin.dir[key]
  ELSE fin.proj[key]

\* the theme rule applies to a format: an HTML output of a website project
\* whose project-level format has a Bootstrap theme
ThemeRuleApplies(name) ==
  /\ fin.project
  /\ fin.projType = "website"
  /\ name = "html"
  /\ fin.proj.theme \notin {"none", "pandoc"}

(***************************************************************************)
(* C28, as stated: for every resolved format and every option set in more  *)
(* than one layer, the resolved value is the input's if the input sets it, *)
(* else the directory's, else the project's.                               *)
(***************************************************************************)
C28_Original ==
  fout.returned
    => \A name \in Names(Resolved), key \in OptionKeys :
         SetIn(key) > 1 => FormatOf(name)[key] = Layered(key)

(***************************************************************************)
(* C28, amended: an option that a command line flag sets has the flag's    *)
(* value in the resolved format.  Every other option set in some layer,    *)
(* except the theme of a format to which the theme rule applies, has the   *)
(* input's value if the input sets it, else the directory's, else the      *)
(* project's.  An option that no layer sets has the built-in default of    *)
(* the format, except echo when the metadata declares a server.            *)
(***************************************************************************)
C28_LayeredPrecedence ==
  fout.returned
    => \A name \in Names(Resolved), key \in OptionKeys :
         IF key = "cache" /\ fin.flags.executeCache # Unset
         THEN FormatOf(name)[key] = fin.flags.executeCache
         ELSE IF key = "theme" /\ ThemeRuleApplies(name) THEN TRUE
         ELSE IF SetIn(key) > 0 THEN FormatOf(name)[key] = Layered(key)
         ELSE IF key = "echo" /\ fin.input.server # Unset THEN TRUE
         ELSE FormatOf(name)[key] = defaultWriterFormat(name)[key]

C28_Witness ==
  /\ fout.returned
  /\ fin.proj.toc = "p" /\ fin.dir.toc = "d" /\ fin.input.toc = "i"
  /\ fin.proj.theme = "cosmo" /\ fin.input.theme = Unset /\ fin.dir.theme = "darkly"
  /\ fin.projType = "book"
  /\ fin.proj.cache = "true" /\ fin.input.cache = "false" /\ fin.flags.executeCache = Unset
  /\ Resolved = <<"html">>
  /\ FormatOf("html").toc = "i"
  /\ FormatOf("html").theme = "darkly"
  /\ FormatOf("html").cache = "false"

(***************************************************************************)
(* C29: in a website project whose project-level format for an HTML output *)
(* carries a Bootstrap theme, the theme of the resolved format is the      *)
(* project's theme, whatever theme the input or the directory sets.        *)
(***************************************************************************)
C29_ProjectThemeWins ==
  (/\ fout.returned
   /\ fin.project
   /\ fin.projType = "website"
   /\ fin.proj.theme = "cosmo"
   /\ Resolved = <<"html">>)
    => FormatOf("html").theme = "cosmo"

(***************************************************************************)
(* isSelfContainedOutput (render.ts 853-881).  A path is the list of the   *)
(* parts of its file name between the dots; an extension is the pair of    *)
(* the dot and the last part, and <<>> when the name has no dot.           *)
(***************************************************************************)
kStandaloneExtensionNames == <<"pdf", "epub", "fb2", "docx", "rtf", "pptx", "odt", "ipynb">>

kStandaloneExtensions == [k \in 1..Len(kStandaloneExtensionNames) |-> <<".", kStandaloneExtensionNames[k]>>]

extname(path) == IF Len(path) < 2 THEN <<>> ELSE <<".", path[Len(path)]>>

\* the values JavaScript takes for true in a condition
truthy(value) == value \notin {Unset, "false", "null"}

\* render.ts 870-872
isSelfContained(flags, format) == truthy(flags.selfContained) \/ truthy(format.pandoc.selfContained)

\* a variant that does not look at the final output
selfContainedAsRequested(flags, format, finalOutput) == isSelfContained(flags, format)

\* render.ts 874-881
isSelfContainedOutput(flags, format, finalOutput) == isSelfContained(flags, format) \/ extname(finalOutput) \in Names(kStandaloneExtensions)

SelfContainedValues == {Unset, "true", "false"}

FinalOutputs ==
  {<<"doc", ext>> : ext \in Names(kStandaloneExtensionNames) \cup {"html", "tex", "md", "PDF"}}
    \cup {<<"doc">>, <<"pdf">>, <<"doc", "pdf", "html">>, <<"doc", "tar", "epub">>}

InitSelfContained ==
  /\ InitExec /\ InitFilesIdle /\ InitPandocIdle
  /\ fin = NotCalled
  /\ fout = NotReturned
  /\ \E flag \in SelfContainedValues, option \in SelfContainedValues, finalOutput \in FinalOutputs :
       scin = [idle |-> FALSE, flags |-> [selfContained |-> flag],
               format |-> [pandoc |-> [selfContained |-> option]],
               finalOutput |-> finalOutput]
  /\ scout = NotReturned
  /\ rin = NotCalled
  /\ rout = NotReturned
  /\ cin = NotCalled
  /\ cst = NotReturned

IsSelfContainedOutput ==
  /\ ~scin.idle
  /\ ~scout.returned
  /\ scout' = [returned |-> TRUE, value |-> isSelfContainedOutput(scin.flags, scin.format, scin.finalOutput)]
  /\ UNCHANGED <<execVars, filesVars, pandocVars, fin, fout, scin, rin, rout, cin, cst>>

NextSelfContained == IsSelfContainedOutput

SpecSelfContained == InitSelfContained /\ [][NextSelfContained]_vars

\* the extension of the final output is one of the eight standalone ones
StandaloneOutput ==
  /\ Len(scin.finalOutput) > 1
  /\ scin.finalOutput[Len(scin.finalOutput)] \in {"pdf", "epub", "fb2", "docx", "rtf", "pptx", "odt", "ipynb"}

(***************************************************************************)
(* C30: isSelfContainedOutput returns true for a final output with one of  *)
(* the extensions .pdf .epub .fb2 .docx .rtf .pptx .odt .ipynb, whatever   *)
(* the self-contained flag and the format's self-contained option are; for *)
(* any other final output it returns true exactly when the flag or the     *)
(* option is set.                                                          *)
(***************************************************************************)
C30_StandaloneIsSelfContained ==
  scout.returned
    => /\ StandaloneOutput => scout.value
       /\ ~StandaloneOutput
            => (scout.value <=> (scin.flags.selfContained = "true" \/ scin.format.pandoc.selfContained = "true"))

C30_Witness ==
  /\ scout.returned
  /\ scin.finalOutput = <<"doc", "docx">>
  /\ scin.flags.selfContained = "false"
  /\ scin.format.pandoc.selfContained = Unset
  /\ scout.value

\* the place of a stage in the order of renderPandoc
StageRank(stage) ==
  CASE stage = "dependencies" -> 1
    [] stage = "converter" -> 2
    [] stage = "enginePostprocess" -> 3
    [] stage \in {"htmlCheck", "htmlRead", "htmlPostprocessor", "htmlFinalizer", "htmlWrite"} -> 4
    [] stage = "postprocessor" -> 5
    [] stage = "complete" -> 6
    [] stage = "cleanup" -> 7

\* the stages of a log outside the HTML postprocess pipeline
OutsidePipeline(t) == SelectSeq(StagesOf(t), LAMBDA stage : StageRank(stage) # 4)

\* how often a stage is in a log
TimesRun(t, stage) == Cardinality({k \in 1..Len(t) : t[k].stage = stage})

(***************************************************************************)
(* C31: renderPandoc runs its stages in the order engine dependencies,     *)
(* converter, engine postprocess, HTML postprocess pipeline, generic       *)
(* postprocessors, completion hook, cleanup.  Each of them runs at most    *)
(* once (a generic postprocessor once each, in registration order), a      *)
(* stage begins only after the one before it has returned, the engine's    *)
(* postprocess runs only when the execute result carries one, and a call   *)
(* that returns has run them all.                                          *)
(***************************************************************************)
C31_StageOrder ==
  ~pin.idle =>
    /\ \A i, j \in 1..Len(plog) :
         i < j => plog[i].ok /\ StageRank(plog[i].stage) <= StageRank(plog[j].stage)
    /\ \A stage \in {"dependencies", "converter", "enginePostprocess", "htmlRead", "htmlWrite", "complete", "cleanup"} :
         TimesRun(plog, stage) <= 1
    /\ TimesRun(plog, "enginePostprocess") = 1 => pin.postProcess
    /\ TimesRun(plog, "dependencies") = 1 => pin.engineDependencies
    /\ IsPrefix(Invoked(plog, "postprocessor"), pin.postprocessors)
    /\ presult.kind = "returned" =>
         OutsidePipeline(plog) =
           (IF pin.engineDependencies THEN <<"dependencies">> ELSE <<>>)
             \o <<"converter">>
             \o (IF pin.postProcess THEN <<"enginePostprocess">> ELSE <<>>)
             \o [k \in 1..Len(pin.postprocessors) |-> "postprocessor"]
             \o <<"complete", "cleanup">>

C31_Witness ==
  /\ ~pin.idle
  /\ presult.kind = "returned"
  /\ pin.engineDependencies /\ pin.postProcess
  /\ Invoked(plog, "postprocessor") = <<"u", "v">>
  /\ Invoked(plog, "htmlPostprocessor") = <<"a", "b">>
  /\ StagesOf(plog)[Len(plog)] = "cleanup"

\* how often an operation is in the log of a call
TimesDone(c, op) == Cardinality({k \in 1..Len(c.ops) : c.ops[k] = op})

(***************************************************************************)
(* C32: a renderExecute call for an input whose engine defines             *)
(* executeTargetSkipped (posts/a.qmd, about.md) invokes exactly one of     *)
(* engine.execute and engine.executeTargetSkipped, and that one once:      *)
(* executeTargetSkipped when a snapshot is reused, execute otherwise.      *)
(***************************************************************************)
C32_ExecuteOrSkipped ==
  (Called /\ last.input \in {"posts/a.qmd", "about.md"})
    => /\ TimesDone(last, "execute") + TimesDone(last, "executeTargetSkipped") = 1
       /\ last.thawed => TimesDone(last, "executeTargetSkipped") = 1 /\ last.skipped /\ ~last.executed
       /\ ~last.thawed => TimesDone(last, "execute") = 1 /\ last.executed /\ ~last.skipped

C32_Witness ==
  /\ Called
  /\ last.input = "posts/a.qmd"
  /\ last.thawed
  /\ last.hadSnapshot
  /\ TimesDone(last, "executeTargetSkipped") = 1
  /\ TimesDone(last, "execute") = 0

(***************************************************************************)
(* C33: when renderExecute returns in a project after reusing a snapshot   *)
(* or after storing one, the execute-results directory of the input in     *)
(* the working tree does not exist any more; on the store path it is       *)
(* removed after the copy to the hidden freezer and after the copy to, or  *)
(* the pruning of, the visible one.                                        *)
(***************************************************************************)
C33_TransientResultsRemoved ==
  (Called /\ inProject(last.input) /\ (last.thawed \/ Stored(last)))
    => /\ ~work[last.input].resDir
       /\ \A o \in Outputs : work[last.input].res[o] = NoResult
       /\ TimesDone(last, "removeFreezeResults") = 1
       /\ Stored(last) =>
            /\ 0 < OpIndex(last, "freeze")
            /\ OpIndex(last, "freeze") < OpIndex(last, "copyTo:hidden")
            /\ OpIndex(last, "copyTo:hidden") < OpIndex(last, "removeFreezeResults")
            /\ \E op \in {"copyTo:visible", "prune:removed", "prune:absent"} :
                 /\ OpIndex(last, "copyTo:hidden") < OpIndex(last, op)
                 /\ OpIndex(last, op) < OpIndex(last, "removeFreezeResults")
            /\ OpIndex(last, "removeFreezeResults") = Len(last.ops)

C33_Witness ==
  /\ Called /\ inProject(last.input) /\ Stored(last)
  /\ last.freeze = "false"
  /\ OpIndex(last, "prune:removed") > 0
  /\ OpIndex(last, "removeFreezeResults") = Len(last.ops)
  /\ ~work[last.input].resDir

\* the formats of a resolution that the project type rejects
Rejected(r) == {n \in Names(r.candidates) : n \in projectType(r.type).unsupported}

\* the steps of the trace made for a file
StepsOf(t, file) == SelectSeq(t, LAMBDA e : e.file = file)

(***************************************************************************)
(* C34: a format that the project type's support predicate rejects is      *)
(* dropped without an error.  renderContexts returns, engine.filterFormat  *)
(* is not called for the format, no context is made and no step of         *)
(* renderFiles is run for it, and no RenderedFile reports it; the other    *)
(* formats of the file are resolved and get their contexts.  For a file    *)
(* all of whose formats are rejected renderFiles does nothing but the      *)
(* construction of the (empty) contexts, and that step succeeds.           *)
(***************************************************************************)
C34_RejectedFormatIsDropped ==
  \A file \in 1..Len(resolutions) :
    LET r == resolutions[file]
    IN /\ \A n \in Rejected(r) :
            /\ n \notin Names(r.filterFormat)
            /\ n \notin Names(r.contexts)
            /\ \A k \in 1..Len(trace) : ~(trace[k].file = file /\ trace[k].format = n)
            /\ \A k \in 1..Len(renderedFiles) :
                 ~(renderedFiles[k].file = file /\ renderedFiles[k].format = n)
       /\ r.contexts = SelectSeq(r.candidates, LAMBDA n : n \notin Rejected(r))
       /\ r.filterFormat = r.contexts
       /\ Names(r.candidates) \subseteq Rejected(r) =>
            /\ \A k \in 1..Len(trace) :
                 trace[k].file = file => trace[k].step = "contexts" /\ trace[k].ok
            /\ (thrown = "none" /\ outcome.returned) => outcome.error = "none"

C34_Witness ==
  /\ Len(resolutions) = 2
  /\ resolutions[1].type = "website" /\ resolutions[1].candidates = <<"pdf">>
  /\ resolutions[1].contexts = <<>>
  /\ resolutions[2].type = "website" /\ resolutions[2].candidates = <<"html", "pdf">>
  /\ resolutions[2].contexts = <<"html">>
  /\ outcome.returned /\ outcome.error = "none"
  /\ renderedFiles = <<[file |-> 2, format |-> "html"]>>

(***************************************************************************)
(* C35: when none of the project, directory and input layers sets echo,    *)
(* the echo of a resolved format is false if the metadata declares a       *)
(* server and the built-in default of the format otherwise; when a layer   *)
(* sets echo, the resolved format keeps that value (the input's before     *)
(* the directory's before the project's).                                  *)
(***************************************************************************)
C35_EchoOffForServer ==
  fout.returned
    => \A name \in Names(Resolved) :
         IF SetIn("echo") = 0
         THEN FormatOf(name).echo = (IF fin.input.server # Unset THEN "false" ELSE "true")
         ELSE FormatOf(name).echo = Layered("echo")

C35_Witness ==
  /\ fout.returned
  /\ SetIn("echo") = 0
  /\ fin.input.server = "shiny"
  /\ Resolved = <<"html">>
  /\ FormatOf("html").echo = "false"

\* the output is no HTML file and only HTML finalizers are registered
OnlyFinalizersForNonHtml ==
  /\ ~pin.idle
  /\ ~pin.htmlOutput
  /\ Len(pin.htmlFinalizers) > 0
  /\ pin.htmlPostprocessors = <<>>

(***************************************************************************)
(* C36: when the output is no HTML file and the converter result has HTML  *)
(* finalizers but no HTML postprocessor, renderPandoc raises no error for  *)
(* them: no finalizer is invoked, the output file is neither parsed nor    *)
(* written back, and the call returns its RenderedFile unless one of the   *)
(* other stages (converter, engine postprocess, generic postprocessor,     *)
(* completion hook) fails.                                                 *)
(***************************************************************************)
C36_FinalizersDroppedForNonHtml ==
  OnlyFinalizersForNonHtml
    => /\ \A k \in 1..Len(plog) : StageRank(plog[k].stage) # 4
       /\ doc = NoDocument
       /\ presult.error \notin {"NonHtmlPostprocessError", "FinalizerError"}
       /\ PandocDone =>
            \/ presult.kind = "returned"
            \/ /\ ~plog[Len(plog)].ok
               /\ plog[Len(plog)].stage \in {"converter", "enginePostprocess", "postprocessor", "complete"}

C36_Witness ==
  /\ OnlyFinalizersForNonHtml
  /\ pin.htmlFinalizers = <<"f", "g">>
  /\ pin.postprocessors = <<"u">>
  /\ presult.kind = "returned"
  /\ disk.body = <<"u">>

\* some step of the run failed
SomeStepFailed == \E k \in 1..Len(trace) : ~trace[k].ok

(***************************************************************************)
(* C37: the result that renderFiles returns carries an error exactly when  *)
(* a step of the run failed, and the error is never undefined or null:     *)
(* when the converter failed with a rejection without a value, the error   *)
(* is a new Error.                                                         *)
(***************************************************************************)
C37_ErrorIffFailure ==
  outcome.returned
    => /\ outcome.error # "none" <=> SomeStepFailed
       /\ outcome.error \notin {"undefined", "null"}
       /\ ConverterFailed => outcome.error = "new Error"
       /\ (SomeStepFailed /\ ~ConverterFailed) => outcome.error = thrown

C37_Witness ==
  /\ outcome.returned
  /\ ConverterFailed
  /\ outcome.error = "new Error"
  /\ Len(outcome.files) = 1

\* the last renderer callback of the trace is an onComplete
CompleteIsLastCallback ==
  \A k \in 1..Len(trace) :
    trace[k].step = "onComplete" =>
      \A j \in (k + 1)..Len(trace) : trace[j].step \in {"onComplete", "cleanup"}

\* a step before the completion failed
BodyStepFailed ==
  \E k \in 1..Len(trace) : ~trace[k].ok /\ trace[k].step # "onComplete"

(***************************************************************************)
(* C38, as stated: in every renderFiles call onComplete is invoked exactly *)
(* once, as the last renderer callback: with partial=false when every      *)
(* context succeeded and with partial=true otherwise.                      *)
(***************************************************************************)
C38_Original ==
  FilesDone
    => /\ CompleteIsLastCallback
       /\ CompleteCalls(trace) = IF BodyStepFailed THEN <<"true">> ELSE <<"false">>

(***************************************************************************)
(* C38, amended: in every renderFiles call the last renderer callback is   *)
(* an onComplete.  When a step before the completion failed, onComplete is *)
(* invoked once, with partial=true.  Otherwise it is invoked with          *)
(* partial=false, and if that call returns it is the only one; if that     *)
(* call itself fails, onComplete is invoked a second time, with            *)
(* partial=true.  It is never invoked more than twice, never twice with    *)
(* the same flag, and the default renderer's is invoked exactly once.      *)
(***************************************************************************)
C38_CompleteCalls ==
  FilesDone
    => /\ CompleteIsLastCallback
       /\ BodyStepFailed => CompleteCalls(trace) = <<"true">>
       /\ (~BodyStepFailed /\ thrownAt # "complete") => CompleteCalls(trace) = <<"false">>
       /\ (~BodyStepFailed /\ thrownAt = "complete") => CompleteCalls(trace) = <<"false", "true">>
       /\ renderer = "default" => Len(CompleteCalls(trace)) = 1

C38_Witness ==
  /\ FilesDone
  /\ renderer = "custom"
  /\ CompleteCalls(trace) = <<"false", "true">>
  /\ Len(renderedFiles) = 2
  /\ outcome.returned
  /\ outcome.error = "CompleteError"

(***************************************************************************)
(* The reveal.js HTML postprocessor (format file, 415-757): the search     *)
(* for the plugin marker among the child nodes of the body and the         *)
(* insertion of the plugin scripts (473-510).  The other fix-ups of the    *)
(* postprocessor (slides, footnotes, citations, stretch) change neither    *)
(* the child nodes of the body nor the outcome and are left out.           *)
(***************************************************************************)
MaxNodes == 3

kRevealJsPlugins == " reveal.js plugins "

kHtmlEmptyPostProcessResult == [resources |-> <<>>, supporting |-> <<>>]

Node(type, value, children, src, async) == [type |-> type, value |-> value, children |-> children, src |-> src, async |-> async]

Comment(value) == Node("comment", value, <<>>, "", FALSE)
TextNode(value) == Node("text", value, <<>>, "", FALSE)

\* the child nodes a body is made of: the marker, another comment, a text
\* with the words of the marker, an element, an element holding the marker
BodyNodes ==
  { Comment(kRevealJsPlugins),
    Comment("reveal.js plugins"),
    TextNode(kRevealJsPlugins),
    Node("element", "div", <<>>, "", FALSE),
    Node("element", "div", <<Comment(kRevealJsPlugins)>>, "", FALSE) }

Bodies == UNION {[1..n -> BodyNodes] : n \in 0..MaxNodes}

\* pluginInit.scripts
PluginScriptLists ==
  LET a == [path |-> "a.js", async |-> FALSE]
      b == [path |-> "b.js", async |-> TRUE]
  IN {<<>>, <<a>>, <<a, b>>, <<b, a>>}

\* variant: the first comment node, whatever it says
firstComment(nodes) ==
  IF \E k \in 1..Len(nodes) : nodes[k].type = "comment"
  THEN CHOOSE k \in 1..Len(nodes) :
         /\ nodes[k].type = "comment"
         /\ \A j \in 1..(k - 1) : nodes[j].type # "comment"
  ELSE 0

\* part_000 473-484: the position of scriptPositionNode among the child
\* nodes of the body, 0 when it is left undefined
scriptPositionNode(nodes) ==
  LET isMarker(k) == nodes[k].type = "comment" /\ nodes[k].value = kRevealJsPlugins
  IN IF \E k \in 1..Len(nodes) : isMarker(k)
     THEN CHOOSE k \in 1..Len(nodes) : isMarker(k) /\ \A j \in 1..(k - 1) : ~isMarker(j)
     ELSE 0

\* part_000 488-500
createPluginScript(pluginScript) == <<TextNode("  "), Node("element", "script", <<>>, pluginScript.path, pluginScript.async), TextNode("\n")>>

\* part_000 501-503: pluginInit.scripts.flatMap(createPluginScript)
RECURSIVE flatMapPluginScripts(_)
flatMapPluginScripts(scripts) ==
  IF scripts = <<>> THEN <<>>
  ELSE createPluginScript(Head(scripts)) \o flatMapPluginScripts(Tail(scripts))

\* node.after(...nodes), for the node at place k
after(nodes, k, inserted) == SubSeq(nodes, 1, k) \o inserted \o SubSeq(nodes, k + 1, Len(nodes))

\* part_000 486-510 and 756
revealHtmlPostprocessor(nodes, scripts) ==
  LET k == scriptPositionNode(nodes)
  IN IF k # 0
     THEN [returned |-> TRUE, kind |-> "result",
           nodes |-> after(nodes, k, <<TextNode("\n")>> \o flatMapPluginScripts(scripts)),
           result |-> kHtmlEmptyPostProcessResult]
     ELSE [returned |-> TRUE, kind |-> "error", nodes |-> nodes,
           result |-> "Unable to determine where to insert Reveal plugin initialization scripts"]

InitReveal ==
  /\ InitExec /\ InitFilesIdle /\ InitPandocIdle
  /\ fin = NotCalled /\ fout = NotReturned
  /\ scin = NotCalled /\ scout = NotReturned
  /\ cin = NotCalled /\ cst = NotReturned
  /\ \E nodes \in Bodies, scripts \in PluginScriptLists :
       rin = [idle |-> FALSE, nodes |-> nodes, scripts |-> scripts]
  /\ rout = NotReturned

RevealHtmlPostprocessor ==
  /\ ~rin.idle
  /\ ~rout.returned
  /\ rout' = revealHtmlPostprocessor(rin.nodes, rin.scripts)
  /\ UNCHANGED <<execVars, filesVars, pandocVars, fin, fout, scin, scout, rin, cin, cst>>

NextReveal == RevealHtmlPostprocessor

SpecReveal == InitReveal /\ [][NextReveal]_vars

\* the places of the body at which the marker comment is a child node
MarkerPlaces == {k \in 1..Len(rin.nodes) : rin.nodes[k] = Comment(" reveal.js plugins ")}

\* the script elements among some nodes, in order
ScriptsAmong(nodes) == SelectSeq(nodes, LAMBDA n : n.type = "element" /\ n.value = "script")

(***************************************************************************)
(* C39: when no child node of the body is the comment ' reveal.js plugins '*)
(* the reveal.js postprocessor fails with an error and returns no result,  *)
(* and leaves the body as it was.  When the marker is there, it inserts    *)
(* after the first marker, before the node that followed it, one script    *)
(* element for every script of pluginInit.scripts, in their order, with    *)
(* nothing but text nodes around them, and returns the empty result.       *)
(***************************************************************************)
C39_RevealPluginMarker ==
  rout.returned
    => IF MarkerPlaces = {}
       THEN rout.kind = "error" /\ rout.nodes = rin.nodes
       ELSE LET k == CHOOSE p \in MarkerPlaces : \A q \in MarkerPlaces : p <= q
                m == Len(rout.nodes) - Len(rin.nodes)
                inserted == SubSeq(rout.nodes, k + 1, k + m)
            IN /\ rout.kind = "result"
               /\ rout.result = [resources |-> <<>>, supporting |-> <<>>]
               /\ m >= 0
               /\ SubSeq(rout.nodes, 1, k) = SubSeq(rin.nodes, 1, k)
               /\ SubSeq(rout.nodes, k + m + 1, Len(rout.nodes)) = SubSeq(rin.nodes, k + 1, Len(rin.nodes))
               /\ \A j \in 1..Len(inserted) :
                    inserted[j].type = "text" \/ (inserted[j].type = "element" /\ inserted[j].value = "script")
               /\ [j \in 1..Len(ScriptsAmong(inserted)) |->
                     [path |-> ScriptsAmong(inserted)[j].src, async |-> ScriptsAmong(inserted)[j].async]]
                    = rin.scripts

C39_Witness ==
  /\ rout.returned
  /\ rout.kind = "result"
  /\ Len(rin.nodes) = 3
  /\ rin.nodes[1].type = "element"
  /\ rin.nodes[2] = Comment(" reveal.js plugins ")
  /\ rin.nodes[3] = Comment(" reveal.js plugins ")
  /\ Len(rin.scripts) = 2
  /\ rin.scripts[1].path = "b.js"
  /\ rout.nodes[5].src = "b.js"
  /\ rout.nodes[8].src = "a.js"

C39_ErrorWitness ==
  /\ rout.returned
  /\ rout.kind = "error"
  /\ Len(rin.nodes) = 2
  /\ rin.nodes[1] = Comment("reveal.js plugins")
  /\ rin.nodes[2].children = <<Comment(" reveal.js plugins ")>>

(***************************************************************************)
(* configure (configure.ts 71-134): the symlink to the quarto binary.      *)
(* The file system is the environment: of every candidate path it is given *)
(* whether something exists at it, whether that can be removed, and        *)
(* whether the directory takes a new symlink.                              *)
(***************************************************************************)
MaxPaths == 3

kEnsureInPath == "Please ensure that quarto is in your path."
kFailedToRemove == "Failed to remove existing symlink."

BinPaths == [exists : BOOLEAN, removable : BOOLEAN, creatable : BOOLEAN]

\* suggestUserBinPaths(), each joined with "quarto" (79-82)
SuggestedUserBinPaths == UNION {[1..n -> BinPaths] : n \in 0..MaxPaths}

\* configure.ts 91-94: does existsSync/removeSync throw
removeThrows(path) == path.exists /\ ~path.removable

\* configure.ts 104-109: does ensureDirSync/symlinkSync go through; a link
\* that is still there makes symlinkSync fail
symlinkSyncSucceeds(path) == path.creatable /\ ~removeThrows(path)

InitConfigure ==
  /\ InitExec /\ InitFilesIdle /\ InitPandocIdle
  /\ fin = NotCalled /\ fout = NotReturned
  /\ scin = NotCalled /\ scout = NotReturned
  /\ rin = NotCalled /\ rout = NotReturned
  /\ \E os \in {"linux", "darwin", "windows"}, paths \in SuggestedUserBinPaths :
       cin = [idle |-> FALSE, os |-> os, paths |-> paths]
  /\ cst = [returned |-> FALSE, pc |-> "symlink", i |-> 0, tried |-> <<>>, removed |-> {}, created |-> <<>>, warnings |-> <<>>]

outsideConfigure == <<execVars, filesVars, pandocVars, fin, fout, scin, scout, rin, rout, cin>>

\* configure.ts 74-85 and 123-131
SetUpSymlink ==
  /\ ~cin.idle
  /\ cst.pc = "symlink"
  /\ IF cin.os = "windows"
     THEN cst' = [cst EXCEPT !.pc = "done", !.returned = TRUE]
     ELSE IF Len(cin.paths) > 0
          THEN cst' = [cst EXCEPT !.pc = "remove", !.i = 1]
          ELSE cst' = [cst EXCEPT !.pc = "done", !.returned = TRUE, !.warnings = Append(@, kEnsureInPath)]
  /\ UNCHANGED outsideConfigure

\* configure.ts 87-101
RemoveExistingSymlink ==
  /\ ~cin.idle
  /\ cst.pc = "remove"
  /\ LET path == cin.paths[cst.i]
     IN cst' = [cst EXCEPT !.pc = "create",
                           !.tried = Append(@, cst.i),
                           !.removed = IF path.exists /\ path.removable THEN @ \cup {cst.i} ELSE @,
                           !.warnings = IF removeThrows(path) THEN Append(@, kFailedToRemove) ELSE @]
  /\ UNCHANGED outsideConfigure

\* variant: the loop goes on after a symlink was created
CreateNewSymlinkAndGoOn ==
  /\ ~cin.idle
  /\ cst.pc = "create"
  /\ LET path == cin.paths[cst.i]
         isLast == cst.i = Len(cin.paths)
     IN cst' = [cst EXCEPT !.pc = IF isLast THEN "done" ELSE "remove",
                           !.returned = isLast,
                           !.i = IF isLast THEN @ ELSE @ + 1,
                           !.created = IF symlinkSyncSucceeds(path) THEN Append(@, cst.i) ELSE @,
                           !.warnings = IF ~symlinkSyncSucceeds(path) /\ isLast THEN Append(@, kEnsureInPath) ELSE @]
  /\ UNCHANGED outsideConfigure

\* configure.ts 103-122
CreateNewSymlink ==
  /\ ~cin.idle
  /\ cst.pc = "create"
  /\ LET path == cin.paths[cst.i]
         isLast == cst.i = Len(cin.paths)
     IN IF symlinkSyncSucceeds(path)
        THEN cst' = [cst EXCEPT !.pc = "done", !.returned = TRUE, !.created = Append(@, cst.i)]
        ELSE cst' = [cst EXCEPT !.pc = IF isLast THEN "done" ELSE "remove",
                                !.returned = isLast,
                                !.i = IF isLast THEN @ ELSE @ + 1,
                                !.warnings = IF isLast THEN Append(@, kEnsureInPath) ELSE @]
  /\ UNCHANGED outsideConfigure

NextConfigure == SetUpSymlink \/ RemoveExistingSymlink \/ CreateNewSymlink

SpecConfigure == InitConfigure /\ [][NextConfigure]_vars

\* the candidate paths at which a symlink can be created, by what the file
\* system allows
Creatable == {k \in 1..Len(cin.paths) : cin.paths[k].creatable /\ (cin.paths[k].exists => cin.paths[k].removable)}

\* the run was told to put the path of quarto on the search path
Warned == \E w \in 1..Len(cst.warnings) : cst.warnings[w] = "Please ensure that quarto is in your path."

C40_WarnedWitness ==
  /\ ~cin.idle
  /\ cin.os = "darwin"
  /\ Len(cin.paths) = 2
  /\ ~cin.paths[1].creatable
  /\ cin.paths[2].exists /\ ~cin.paths[2].removable
  /\ cst.returned
  /\ cst.created = <<>>
  /\ cst.tried = <<1, 2>>
  /\ Warned

====
